---- MODULE Spec2Model ----
(***************************************************************************)
(* Model of the client-side data-fetching layer of the L1Beat dashboard    *)
(* (src/src/api.ts): the retry-wrapped HTTP fetch, the TTL cache and the   *)
(* typed accessors.                                                        *)
(*                                                                         *)
(* The module holds six state machines  over disjoint variables:           *)
(*   SpecRetry     fetchWithRetry, one process per call                    *)
(*   SpecCache     fetchWithCache under overlapping accessor calls         *)
(*   SpecAccessor  the accessors' validation and normalisation             *)
(*   SpecTransform the pure transforms of the views (deduplication, stake  *)
(*                 distribution, colours, score, health flag)              *)
(*   SpecPoll      the polling effects of Dashboard and TPSChart           *)
(*   SpecStore     the store's fetchBlockchainData                         *)
(* and SpecCacheChains, the cache under getChains calls that may fail.     *)
(* Each specification leaves the other machines' variables at rest.        *)
(***************************************************************************)
EXTENDS Integers, Sequences, FiniteSets, TLC

(***************************************************************************)
(* Bounds of the model.                                                    *)
(***************************************************************************)
MaxRetryCalls == 1
MaxRetries == 5
MaxCacheCalls == 3
MaxAdvances == 2
MaxValidators == 1
MaxSeries == 2
MaxSamples == 3
MaxStakers == 3
MaxActive == 101
MaxTicks == 3
MaxStoreCalls == 3

VARIABLES
    \* ---- fetchWithRetry (api.ts:35-105), one entry per call
    rpc,            \* position of the call in the function body
    retries,        \* parameter `retries`
    attempt,        \* local `attempt`
    timeoutId,      \* the timer made by setTimeout at line 46
    controller,     \* the AbortController of line 45: [aborted |-> BOOLEAN]
    transportCalls, \* number of times line 50 called fetch()
    backoffSleeps,  \* number of times line 97 slept
    sleepMs,        \* milliseconds of the sleep of line 97, the latest one
    retryResult,    \* how the returned promise settled
    \* ---- fetchWithCache (api.ts:5, 18-33)
    cache,          \* the module-level Map of line 5: key -> {data, timestamp}
    clock,          \* Date.now(), in milliseconds since the page loaded
    advances,       \* number of times the clock moved
    ccall,          \* the accessor calls: position, arguments, locals, result
    \* ---- one accessor fetcher (api.ts:146-358)
    apc,            \* "fetching" until fetchWithRetry settles, then "settled"
    acall,          \* the accessor and its arguments
    fetched,        \* how fetchWithRetry settled: a parsed body, or a throw
    aresult,        \* how the accessor's promise settled
    \* ---- one derived-data transform of the chart components
    tpc,            \* "called", "returned", then "reapplied" or "recomputed"
    tcall,          \* the transform and its arguments
    tout,           \* what it returned
    tagain,         \* what it returned when given tout, or when called again
    \* ---- the polling effects of Dashboard and TPSChart, one entry per view
    interval,       \* the view's setInterval timer: "none", "armed", "cleared"
    mounted,        \* the `mounted` variable of TPSChart's effect
    cleanedUp,      \* whether the effect's cleanup has run
    pending,        \* fetches in flight, by what started them
    ticks,          \* timer ticks so far
    setterCalls,    \* times the view's code has called its state setters
    \* ---- the store's fetchBlockchainData (appStore.jsx:76-221)
    store,          \* the state of the store: blockchainData, tpsData, isLoading
    spc,            \* position of the call of fetchBlockchainData
    transformedData,\* the local of that name
    sresult,        \* how the promise of fetchBlockchainData settled
    scalls          \* calls of fetchBlockchainData so far

retryVars == <<rpc, retries, attempt, timeoutId, controller, transportCalls,
               backoffSleeps, sleepMs, retryResult>>

cacheVars == <<cache, clock, advances, ccall>>

accessorVars == <<apc, acall, fetched, aresult>>

transformVars == <<tpc, tcall, tout, tagain>>

pollVars == <<interval, mounted, cleanedUp, pending, ticks, setterCalls>>

storeVars == <<store, spc, transformedData, sresult, scalls>>

vars == <<retryVars, cacheVars, accessorVars, transformVars, pollVars,
          storeVars>>

\* The store as created (appStore.jsx lines 3-11): the lists are empty and
\* isLoading is not a property yet; no call has been made.
StoreIdle ==
    /\ store = [blockchainData |-> << >>, tpsData |-> << >>,
                isLoading |-> [t |-> "undefined"]]
    /\ spc = "idle"
    /\ transformedData = << >>
    /\ sresult = [kind |-> "none"]
    /\ scalls = 0

Views == {"Dashboard", "TPSChart"}

\* No view has been rendered yet.
PollIdle ==
    /\ interval = [v \in Views |-> "none"]
    /\ mounted = FALSE
    /\ cleanedUp = [v \in Views |-> FALSE]
    /\ pending = [v \in Views |-> [effect |-> 0, tick |-> 0]]
    /\ ticks = [v \in Views |-> 0]
    /\ setterCalls = [v \in Views |-> 0]

\* No transform is being computed.
TransformIdle ==
    /\ tpc = "idle"
    /\ tcall = [fn |-> "none"]
    /\ tout = << >>
    /\ tagain = << >>

(***************************************************************************)
(* JavaScript values. A string is the sequence of its characters, so that  *)
(* concatenation, formatting and parsing are computed, not assumed.        *)
(***************************************************************************)
Undefined == [t |-> "undefined"]
Str(chars) == [t |-> "string", s |-> chars]
Num(k) == [t |-> "number", n |-> k]

Null == [t |-> "null"]
Bool(b) == [t |-> "boolean", b |-> b]
NaN == [t |-> "nan"]
Arr(items) == [t |-> "array", items |-> items]
\* An object is the record of its properties; a property the JSON text
\* leaves out is held as Undefined, which is what reading it gives.
Obj(fields) == [t |-> "object", f |-> fields]

\* typeof v.
TypeOf(v) ==
    CASE v.t \in {"null", "array", "object"} -> "object"
      [] v.t = "nan" -> "number"
      [] OTHER -> v.t

\* ToBoolean: undefined, null, false, 0, NaN and "" are falsy.
Truthy(v) ==
    CASE v.t \in {"undefined", "null", "nan"} -> FALSE
      [] v.t = "boolean" -> v.b
      [] v.t = "string" -> v.s # << >>
      [] v.t = "number" -> v.n # 0
      [] OTHER -> TRUE

\* a || b.
OrElse(a, b) == IF Truthy(a) THEN a ELSE b

\* Reading a property of null or undefined raises a TypeError.
IsNullish(v) == v.t \in {"undefined", "null"}

\* v.name for a v that is not nullish: the property of an object, and
\* undefined on a primitive or an array (no data property of that name).
Get(v, name) ==
    IF v.t = "object" /\ name \in DOMAIN v.f THEN v.f[name] ELSE Undefined

\* Array.isArray(v).
IsArray(v) == v.t = "array"

\* v === 'chars'.
StrictEqualsString(v, chars) == v.t = "string" /\ v.s = chars

DigitChar(d) == CASE d = 0 -> "0" [] d = 1 -> "1" [] d = 2 -> "2" [] d = 3 -> "3"
                  [] d = 4 -> "4" [] d = 5 -> "5" [] d = 6 -> "6" [] d = 7 -> "7"
                  [] d = 8 -> "8" [] d = 9 -> "9"

\* String(k) for an integer k, as a template literal formats it.
RECURSIVE NatToString(_)
NatToString(k) == IF k < 10 THEN <<DigitChar(k)>>
                  ELSE NatToString(k \div 10) \o <<DigitChar(k % 10)>>

NumberToString(k) == IF k < 0 THEN <<"-">> \o NatToString(-k) ELSE NatToString(k)

DigitValue(ch) == CASE ch = "0" -> 0 [] ch = "1" -> 1 [] ch = "2" -> 2 [] ch = "3" -> 3
                    [] ch = "4" -> 4 [] ch = "5" -> 5 [] ch = "6" -> 6 [] ch = "7" -> 7
                    [] ch = "8" -> 8 [] ch = "9" -> 9
Digits == {"0", "1", "2", "3", "4", "5", "6", "7", "8", "9"}

RECURSIVE DigitsToNat(_)
DigitsToNat(chars) ==
    IF chars = << >> THEN 0
    ELSE 10 * DigitsToNat(SubSeq(chars, 1, Len(chars) - 1)) + DigitValue(chars[Len(chars)])

AllDigits(chars) == chars # << >> /\ \A i \in 1..Len(chars) : chars[i] \in Digits

\* Number(s) for a string of digits, letters and "-": the empty string is
\* 0, an optionally signed run of digits is its value, anything else NaN.
StringToNumber(chars) ==
    IF chars = << >> THEN Num(0)
    ELSE IF AllDigits(chars) THEN Num(DigitsToNat(chars))
    ELSE IF chars[1] = "-" /\ AllDigits(Tail(chars)) THEN Num(-DigitsToNat(Tail(chars)))
    ELSE NaN

\* Number(v) for a primitive or a plain object.
ToNumber(v) ==
    CASE v.t = "undefined" -> NaN
      [] v.t = "null" -> Num(0)
      [] v.t = "boolean" -> IF v.b THEN Num(1) ELSE Num(0)
      [] v.t = "number" -> v
      [] v.t = "nan" -> NaN
      [] v.t = "string" -> StringToNumber(v.s)
      [] OTHER -> NaN

S_undefined == <<"u","n","d","e","f","i","n","e","d">>

\* `${v}` for a string, a number or undefined.
TemplateString(v) ==
    CASE v.t = "string" -> v.s
      [] v.t = "number" -> NumberToString(v.n)
      [] OTHER -> S_undefined

(***************************************************************************)
(* fetchWithRetry                                                          *)
(***************************************************************************)
RetryCalls == 1..MaxRetryCalls

NoResult == [kind |-> "pending", value |-> "none"]

\* What the specification promises of getFallbackData: the default of the
\* declared type, returned.
FallbackValue == [kind |-> "return", value |-> "fallback"]

\* getFallbackData as the build runs it. Line 143 indexes the table with
\* `T.name`, and T is a type parameter: the type is erased, no binding named
\* T exists at run time, and evaluating `T.name` raises a ReferenceError
\* before anything is returned.
GetFallbackData == [kind |-> "throw", value |-> "ReferenceError"]

\* clearTimeout(timeoutId): cancels a pending timer, no effect on one that
\* has fired or was cleared before.
ClearTimeout(t) == IF t = "armed" THEN "cleared" ELSE t

\* Lines 42-50: the locals, the controller and its timer, and the first
\* pass of the loop up to the await of fetch(). Every caller leaves
\* `retries` at its default of 3; the model takes any count from 1.
StartFetchWithRetry(c, r) ==
    /\ rpc[c] = "idle"
    /\ 0 < r
    /\ retries' = [retries EXCEPT ![c] = r]
    /\ attempt' = [attempt EXCEPT ![c] = 0]
    /\ controller' = [controller EXCEPT ![c] = [aborted |-> FALSE]]
    /\ timeoutId' = [timeoutId EXCEPT ![c] = "armed"]
    /\ transportCalls' = [transportCalls EXCEPT ![c] = 1]
    /\ rpc' = [rpc EXCEPT ![c] = "fetching"]
    /\ UNCHANGED <<backoffSleeps, sleepMs, retryResult>>

\* A timer whose callback aborts nothing.
TimeoutFiresWithoutAbort(c) ==
    /\ timeoutId[c] = "armed"
    /\ timeoutId' = [timeoutId EXCEPT ![c] = "fired"]
    /\ UNCHANGED <<rpc, retries, attempt, controller, transportCalls,
                   backoffSleeps, sleepMs, retryResult>>

\* Line 46: the timer callback, controller.abort().
TimeoutFires(c) ==
    /\ timeoutId[c] = "armed"
    /\ timeoutId' = [timeoutId EXCEPT ![c] = "fired"]
    /\ controller' = [controller EXCEPT ![c] = [aborted |-> TRUE]]
    /\ UNCHANGED <<rpc, retries, attempt, transportCalls, backoffSleeps, sleepMs,
                   retryResult>>

\* Line 39: the default of backoffFactor, which every caller leaves.
BackoffFactor == 2

RECURSIVE Pow(_, _)
Pow(b, e) == IF e = 0 THEN 1 ELSE b * Pow(b, e - 1)

\* A delay that grows without a ceiling.
DelayUncapped(n) == 1000 * Pow(BackoffFactor, n)

\* Line 95: Math.min(1000 * Math.pow(backoffFactor, attempt), 10000), with
\* the attempt count after line 91 counted the failure.
Delay(n) ==
    IF 1000 * Pow(BackoffFactor, n) < 10000
    THEN 1000 * Pow(BackoffFactor, n) ELSE 10000

\* Line 96: Math.random() * 1000, at least 0 and less than 1000.
Jitters == {0, 999}

\* Lines 81-98 for an error that is not a CORS TypeError: count the attempt,
\* leave the loop after the last one (lines 93, 101-104), else sleep.
RetryableFailure(c, t) ==
    /\ attempt' = [attempt EXCEPT ![c] = attempt[c] + 1]
    /\ IF attempt[c] + 1 = retries[c]
       THEN /\ timeoutId' = [timeoutId EXCEPT ![c] = ClearTimeout(t)]
            /\ rpc' = [rpc EXCEPT ![c] = "exhausted"]
            /\ retryResult' = [retryResult EXCEPT ![c] = GetFallbackData]
            /\ UNCHANGED <<backoffSleeps, sleepMs>>
       ELSE /\ timeoutId' = [timeoutId EXCEPT ![c] = t]
            /\ rpc' = [rpc EXCEPT ![c] = "sleeping"]
            /\ backoffSleeps' = [backoffSleeps EXCEPT ![c] = backoffSleeps[c] + 1]
            /\ \E jitter \in Jitters :
                  sleepMs' = [sleepMs EXCEPT ![c] = Delay(attempt[c] + 1) + jitter]
            /\ UNCHANGED retryResult
    /\ UNCHANGED <<retries, controller, transportCalls>>

\* Lines 50-72, 80: fetch() resolved with a response that is not usable: a
\* status outside 2xx (504, 429 or other) or a body that is not JSON. Line 62
\* clears the timer first; the throw lands in the catch of line 81.
ResponseKinds == {"http_504", "http_429", "http_other", "not_json"}

ResponseRejected(c, kind) ==
    /\ rpc[c] = "fetching"
    /\ ~controller[c].aborted
    /\ kind \in ResponseKinds
    /\ RetryableFailure(c, ClearTimeout(timeoutId[c]))

\* Lines 50-76: fetch() resolved with a 2xx JSON response; line 62 clears
\* the timer and line 76 awaits the body.
ResponseAccepted(c) ==
    /\ rpc[c] = "fetching"
    /\ ~controller[c].aborted
    /\ timeoutId' = [timeoutId EXCEPT ![c] = ClearTimeout(timeoutId[c])]
    /\ rpc' = [rpc EXCEPT ![c] = "parsing"]
    /\ UNCHANGED <<retries, attempt, controller, transportCalls, backoffSleeps, sleepMs,
                   retryResult>>

\* Lines 76-77: response.json() resolved, the payload is returned.
BodyParsed(c) ==
    /\ rpc[c] = "parsing"
    /\ rpc' = [rpc EXCEPT ![c] = "returned"]
    /\ retryResult' = [retryResult EXCEPT ![c] = [kind |-> "return", value |-> "payload"]]
    /\ UNCHANGED <<retries, attempt, timeoutId, controller, transportCalls,
                   backoffSleeps, sleepMs>>

\* Line 76: response.json() rejected (the body is not valid JSON).
BodyMalformed(c) ==
    /\ rpc[c] = "parsing"
    /\ RetryableFailure(c, timeoutId[c])

\* Line 50: fetch() rejected with a TypeError that does not mention CORS
\* (connection refused, DNS failure, offline).
NetworkError(c) ==
    /\ rpc[c] = "fetching"
    /\ ~controller[c].aborted
    /\ RetryableFailure(c, timeoutId[c])

\* Line 50 with an aborted signal: fetch() rejects with an AbortError, which
\* is a DOMException and so misses the test of line 85.
AbortRejects(c) ==
    /\ rpc[c] = "fetching"
    /\ controller[c].aborted
    /\ RetryableFailure(c, timeoutId[c])

\* Lines 85-89: fetch() rejected with a TypeError whose message mentions
\* CORS: leave at once with getFallbackData(). The timer is not touched.
CorsError(c) ==
    /\ rpc[c] = "fetching"
    /\ ~controller[c].aborted
    /\ rpc' = [rpc EXCEPT ![c] = "cors"]
    /\ retryResult' = [retryResult EXCEPT ![c] = GetFallbackData]
    /\ UNCHANGED <<retries, attempt, timeoutId, controller, transportCalls,
                   backoffSleeps, sleepMs>>

\* Lines 97, 48-50: the backoff sleep ends and the loop issues the next
\* fetch() with the same controller's signal.
BackoffEnds(c) ==
    /\ rpc[c] = "sleeping"
    /\ rpc' = [rpc EXCEPT ![c] = "fetching"]
    /\ transportCalls' = [transportCalls EXCEPT ![c] = transportCalls[c] + 1]
    /\ UNCHANGED <<retries, attempt, timeoutId, controller, backoffSleeps, sleepMs,
                   retryResult>>

InitRetry ==
    /\ rpc = [c \in RetryCalls |-> "idle"]
    /\ retries = [c \in RetryCalls |-> 0]
    /\ attempt = [c \in RetryCalls |-> 0]
    /\ timeoutId = [c \in RetryCalls |-> "none"]
    /\ controller = [c \in RetryCalls |-> [aborted |-> FALSE]]
    /\ transportCalls = [c \in RetryCalls |-> 0]
    /\ backoffSleeps = [c \in RetryCalls |-> 0]
    /\ sleepMs = [c \in RetryCalls |-> 0]
    /\ retryResult = [c \in RetryCalls |-> NoResult]

\* fetchWithRetry reads and writes its own locals only.
OutsideRetry ==
    UNCHANGED <<cacheVars, accessorVars, transformVars, pollVars, storeVars>>

NextRetry ==
    \/ \E c \in RetryCalls : \E r \in 1..MaxRetries :
           StartFetchWithRetry(c, r) /\ OutsideRetry
    \/ \E c \in RetryCalls : TimeoutFires(c) /\ OutsideRetry
    \/ \E c \in RetryCalls : \E kind \in ResponseKinds :
           ResponseRejected(c, kind) /\ OutsideRetry
    \/ \E c \in RetryCalls : ResponseAccepted(c) /\ OutsideRetry
    \/ \E c \in RetryCalls : BodyParsed(c) /\ OutsideRetry
    \/ \E c \in RetryCalls : BodyMalformed(c) /\ OutsideRetry
    \/ \E c \in RetryCalls : NetworkError(c) /\ OutsideRetry
    \/ \E c \in RetryCalls : AbortRejects(c) /\ OutsideRetry
    \/ \E c \in RetryCalls : CorsError(c) /\ OutsideRetry
    \/ \E c \in RetryCalls : BackoffEnds(c) /\ OutsideRetry

RetryIdle == InitRetry

(***************************************************************************)
(* fetchWithCache and the cache keys of the accessors                      *)
(***************************************************************************)
CacheCalls == 1..MaxCacheCalls

\* Line 6.
CACHE_DURATION == 15 * 60 * 1000
\* Line 319: the duration getHealth passes.
HealthDuration == 30000

S_network == <<"n","e","t","w","o","r","k">>
S_tps_history == <<"t","p","s","-","h","i","s","t","o","r","y","-">>
S_health_status == <<"h","e","a","l","t","h","-","s","t","a","t","u","s">>
S_chains == <<"c","h","a","i","n","s">>

\* The accessor calls of the model: getHealth(), and getTPSHistory(days,
\* chainId) network-wide and for one chain. ChainDetails
\* takes the chain id from the route /chain/:chainId, so every non-empty
\* path segment is a chain id a page can pass.
AccessorCalls ==
    { [fn |-> "getHealth"],
      [fn |-> "getTPSHistory", days |-> 7, chainId |-> Undefined],
      [fn |-> "getTPSHistory", days |-> 7, chainId |-> Str(S_network)] }

\* Line 225: `tps-history-${chainId || 'network'}-${days}`.
TPSHistoryKey(days, chainId) ==
    S_tps_history
    \o (IF Truthy(chainId) THEN chainId.s ELSE S_network)
    \o <<"-">> \o NumberToString(days)

\* getChains(), the one call on the key 'chains'.
ChainsCalls == {[fn |-> "getChains"]}

\* Lines 147, 225 and 295: the key each accessor passes to fetchWithCache.
CacheKey(a) ==
    CASE a.fn = "getHealth" -> S_health_status
      [] a.fn = "getChains" -> S_chains
      [] OTHER -> TPSHistoryKey(a.days, a.chainId)

\* Lines 21, 319: the duration each accessor passes (getTPSHistory passes
\* none and gets the default).
Duration(a) == IF a.fn = "getHealth" THEN HealthDuration ELSE CACHE_DURATION

\* Lines 149, 228-230, 298: the endpoint the accessor's fetcher requests. The
\* per-chain endpoint takes no day window.
RequestOf(a) ==
    IF a.fn = "getHealth"
    THEN [endpoint |-> "/health", chainId |-> << >>, days |-> 0]
    ELSE IF a.fn = "getChains"
    THEN [endpoint |-> "/api/chains", chainId |-> << >>, days |-> 0]
    ELSE IF Truthy(a.chainId)
         THEN [endpoint |-> "/api/chains/{id}/tps/history",
               chainId |-> a.chainId.s, days |-> 0]
         ELSE [endpoint |-> "/api/tps/network/history",
               chainId |-> << >>, days |-> a.days]

\* A freshness test that serves every entry.
IsFreshAlways(cached, now, duration) == TRUE

\* A freshness test that never serves an entry.
IsFreshNever(cached, now, duration) == FALSE

\* A freshness test that also serves an entry aged exactly `duration`.
IsFreshInclusive(cached, now, duration) == now - cached.timestamp <= duration

\* Line 26: the freshness test.
IsFresh(cached, now, duration) == now - cached.timestamp < duration

\* A store that keeps the entry a key already has.
CacheSetKeepFirst(m, key, data, now) ==
    IF key \in DOMAIN m THEN m
    ELSE [k \in DOMAIN m \cup {key} |->
            IF k = key THEN [data |-> data, timestamp |-> now] ELSE m[k]]

\* A store that forgets the entry.
CacheSetDropped(m, key, data, now) == m

\* Line 31: cache.set(key, { data, timestamp: now }).
CacheSet(m, key, data, now) ==
    [k \in DOMAIN m \cup {key} |->
        IF k = key THEN [data |-> data, timestamp |-> now] ELSE m[k]]

IdleCall == [pc |-> "idle"]

Pending(c) == ccall[c].pc = "awaiting"
Began(c) == ccall[c].pc # "idle"

\* Lines 23-30: look the key up, read the clock, and either return the
\* cached data or call the fetcher and wait for it.
FetchWithCache(c, a) ==
    LET key == CacheKey(a)
        duration == Duration(a)
        now == clock
        hit == key \in DOMAIN cache /\ IsFresh(cache[key], now, duration)
        others == {d \in CacheCalls : d # c /\ Pending(d) /\ ccall[d].key = key}
    IN  /\ ccall[c].pc = "idle"
        /\ (IF c = 1 THEN TRUE ELSE Began(c - 1))
        /\ ccall' = [d \in CacheCalls |->
              IF d = c
              THEN [pc |-> IF hit THEN "done" ELSE "awaiting",
                    call |-> a, key |-> key, duration |-> duration, now |-> now,
                    fetcherCalled |-> ~hit,
                    fromCache |-> hit,
                    servedTimestamp |-> IF hit THEN cache[key].timestamp ELSE -1,
                    data |-> IF hit THEN cache[key].data
                             ELSE [producer |-> 0, request |-> RequestOf(a),
                                   fallback |-> FALSE],
                    overlapped |-> ~hit /\ others # {}]
              ELSE IF d \in others /\ ~hit
                   THEN [ccall[d] EXCEPT !.overlapped = TRUE]
                   ELSE ccall[d]]
        /\ UNCHANGED <<cache, clock, advances>>

\* Lines 30-32: the fetcher's promise resolves; store the data under the
\* key with the `now` read at line 24, and return it. The fetchers are the
\* accessors' closures, whose try/catch lets no rejection out.
FetcherResolves(c) ==
    LET data == [producer |-> c, request |-> RequestOf(ccall[c].call),
                 fallback |-> FALSE]
    IN  /\ Pending(c)
        /\ cache' = CacheSet(cache, ccall[c].key, data, ccall[c].now)
        /\ ccall' = [ccall EXCEPT ![c].pc = "done", ![c].data = data]
        /\ UNCHANGED <<clock, advances>>

\* A fetcher whose fallback is returned to the caller and not stored.
FetcherFallsBackUnstored(c) ==
    LET data == [producer |-> c, request |-> RequestOf(ccall[c].call),
                 fallback |-> TRUE]
    IN  /\ Pending(c)
        /\ ccall' = [ccall EXCEPT ![c].pc = "done", ![c].data = data]
        /\ UNCHANGED <<cache, clock, advances>>

\* Lines 30-32 when the fetcher's request failed: the catch of the
\* accessor (getChains, lines 165-168) resolves the fetcher's promise with
\* the accessor's empty or default value, and fetchWithCache stores it and
\* returns it like any other.
FetcherFallsBack(c) ==
    LET data == [producer |-> c, request |-> RequestOf(ccall[c].call),
                 fallback |-> TRUE]
    IN  /\ Pending(c)
        /\ cache' = CacheSet(cache, ccall[c].key, data, ccall[c].now)
        /\ ccall' = [ccall EXCEPT ![c].pc = "done", ![c].data = data]
        /\ UNCHANGED <<clock, advances>>

\* Time passes between two steps of the event loop, from the first call on
\* and while a call is still to begin or to finish.
ClockSteps == {1, HealthDuration - 1, CACHE_DURATION - 1}

AdvanceClock(d) ==
    /\ advances < MaxAdvances
    /\ Began(1)
    /\ \E c \in CacheCalls : ccall[c].pc # "done"
    /\ clock' = clock + d
    /\ advances' = advances + 1
    /\ UNCHANGED <<cache, ccall>>

InitCache ==
    /\ cache = << >>
    /\ clock = 0
    /\ advances = 0
    /\ ccall = [c \in CacheCalls |-> IdleCall]

CacheIdle == InitCache

\* fetchWithCache reads and writes the cache map only.
OutsideCache ==
    UNCHANGED <<retryVars, accessorVars, transformVars, pollVars, storeVars>>

NextCache ==
    \/ \E c \in CacheCalls : \E a \in AccessorCalls :
           FetchWithCache(c, a) /\ OutsideCache
    \/ \E c \in CacheCalls : FetcherResolves(c) /\ OutsideCache
    \/ \E d \in ClockSteps : AdvanceClock(d) /\ OutsideCache

\* getChains through fetchWithCache, its requests failing or not.
NextCacheChains ==
    \/ \E c \in CacheCalls : \E a \in ChainsCalls :
           FetchWithCache(c, a) /\ OutsideCache
    \/ \E c \in CacheCalls : FetcherResolves(c) /\ OutsideCache
    \/ \E c \in CacheCalls : FetcherFallsBack(c) /\ OutsideCache
    \/ \E d \in ClockSteps : AdvanceClock(d) /\ OutsideCache

(***************************************************************************)
(* The accessors' fetchers: validation and normalisation                   *)
(***************************************************************************)
Ok(v) == [kind |-> "ok", value |-> v]
Thrown == [kind |-> "throw", value |-> Undefined]
Resolve(v) == [kind |-> "resolve", value |-> v]
Reject == [kind |-> "reject", value |-> Undefined]

\* try { body } catch (error) { return fallback }: the shape of every
\* fetcher (lines 148/164, 173/188, 197/212, 226/250, 259/279, 296/312,
\* 324/345).
TryCatch(completion, fallback) ==
    IF completion.kind = "ok" THEN Resolve(completion.value) ELSE Resolve(fallback)

SeqsUpTo(S, n) == UNION {[1..k -> S] : k \in 0..n}

\* A series left in the order the backend sent it.
SortSkipped(q, key) == q

\* A series turned around (Array.prototype.reverse) instead of sorted.
SortReversed(q, key) == [i \in 1..Len(q) |-> q[Len(q) + 1 - i]]

\* Array.prototype.sort with a comparator on the numeric property `key`:
\* stable, ascending.
RECURSIVE SortBy(_, _)
InsertBy(x, q, key) ==
    LET before == {i \in 1..Len(q) : q[i].f[key].n <= x.f[key].n}
        k == IF before = {} THEN 0
             ELSE CHOOSE i \in before : \A j \in before : j <= i
        \* q is sorted, so the elements not above x are a prefix
    IN  SubSeq(q, 1, k) \o <<x>> \o SubSeq(q, k + 1, Len(q))
SortBy(q, key) ==
    IF q = << >> THEN << >>
    ELSE InsertBy(q[Len(q)], SortBy(SubSeq(q, 1, Len(q) - 1), key), key)

S_active == <<"a","c","t","i","v","e">>
S_validators == <<"/","v","a","l","i","d","a","t","o","r","s","/">>
\* Line 10.
EXPLORER_URL == <<"h","t","t","p","s",":","/","/","s","u","b","n","e","t","s",".",
                  "a","v","a","x",".","n","e","t","w","o","r","k">>

\* A validator mapping that takes the status for the flag whenever one is
\* given.
MapValidatorAnyStatus(chain, validator) ==
    Obj([address |-> Get(validator, "nodeId"),
         active |-> Bool(Truthy(Get(validator, "validationStatus"))),
         uptime |-> Get(validator, "uptimePerformance"),
         weight |-> ToNumber(Get(validator, "amountStaked")),
         explorerUrl |-> Undefined])

\* Lines 156-162: one raw validator to the application's Validator.
MapValidator(chain, validator) ==
    Obj([address |-> Get(validator, "nodeId"),
         active |-> Bool(StrictEqualsString(Get(validator, "validationStatus"), S_active)),
         uptime |-> Get(validator, "uptimePerformance"),
         weight |-> ToNumber(Get(validator, "amountStaked")),
         explorerUrl |->
             IF Truthy(Get(chain, "explorerUrl"))
             THEN Str(EXPLORER_URL \o S_validators
                      \o TemplateString(Get(validator, "nodeId")))
             ELSE Undefined])

\* Lines 150-163 raise a TypeError on a chain that is null, or whose
\* `validators` has no map method, or holds a null validator.
ChainThrows(chain) ==
    \/ IsNullish(chain)
    \/ ~IsArray(Get(chain, "validators"))
    \/ \E i \in 1..Len(Get(chain, "validators").items) :
           IsNullish(Get(chain, "validators").items[i])

\* Lines 150-163: the raw chain's own properties, `tps` and `validators`
\* replaced.
MapChain(chain) ==
    LET MapOne(validator) == MapValidator(chain, validator)
        tps == Get(chain, "tps")
    IN  Obj([k \in DOMAIN chain.f \cup {"tps", "validators"} |->
            CASE k = "tps" ->
                    IF Truthy(tps)
                    THEN Obj([value |-> ToNumber(Get(tps, "value")),
                              timestamp |-> Get(tps, "timestamp")])
                    ELSE Null
              [] k = "validators" ->
                    Arr([i \in 1..Len(Get(chain, "validators").items) |->
                            MapOne(Get(chain, "validators").items[i])])
              [] OTHER -> chain.f[k]])

\* A getChains that leaves out the chains it cannot map.
GetChainsBodySkipping(out) ==
    IF out.kind = "throw" THEN Thrown
    ELSE IF ~IsArray(out.value) THEN Thrown
    ELSE LET Mappable(chain) == ~ChainThrows(chain)
             kept == SelectSeq(out.value.items, Mappable)
         IN  Ok(Arr([i \in 1..Len(kept) |-> MapChain(kept[i])]))

\* Lines 149-163: the body of getChains' try block.
GetChainsBody(out) ==
    IF out.kind = "throw" THEN Thrown
    ELSE IF ~IsArray(out.value) THEN Thrown
    ELSE IF \E i \in 1..Len(out.value.items) : ChainThrows(out.value.items[i])
         THEN Thrown
    ELSE Ok(Arr([i \in 1..Len(out.value.items) |-> MapChain(out.value.items[i])]))

\* Lines 146-169.
GetChains(out) == TryCatch(GetChainsBody(out), Arr(<< >>))

\* Line 242: the filter of getTPSHistory.
TPSItemKept(item) ==
    /\ Truthy(item)
    /\ TypeOf(Get(item, "timestamp")) = "number"
    /\ \/ TypeOf(Get(item, "value")) = "number"
       \/ TypeOf(Get(item, "totalTps")) = "number"

\* Lines 243-248.
MapTPSItem(item) ==
    Obj([timestamp |-> ToNumber(Get(item, "timestamp")),
         totalTps |-> ToNumber(OrElse(Get(item, "value"),
                                      OrElse(Get(item, "totalTps"), Num(0)))),
         chainCount |-> ToNumber(OrElse(Get(item, "chainCount"), Num(1))),
         date |-> Get(item, "timestamp")])

\* An envelope test that forgets the success flag.
TPSEnvelopeRefusedDataOnly(response) == ~IsArray(Get(response, "data"))

\* Line 237: the envelope test of getTPSHistory.
TPSEnvelopeRefused(response) ==
    ~Truthy(Get(response, "success")) \/ ~IsArray(Get(response, "data"))


\* Lines 232-249: the body of getTPSHistory's try block.
GetTPSHistoryBody(out) ==
    IF out.kind = "throw" THEN Thrown
    ELSE IF IsNullish(out.value) THEN Thrown
    ELSE IF TPSEnvelopeRefused(out.value) THEN Ok(Arr(<< >>))
    ELSE LET kept == SelectSeq(Get(out.value, "data").items, TPSItemKept)
         IN  Ok(Arr(SortBy([i \in 1..Len(kept) |-> MapTPSItem(kept[i])],
                           "timestamp")))

\* Lines 224-255.
GetTPSHistory(out) == TryCatch(GetTPSHistoryBody(out), Arr(<< >>))

\* Line 182: the filter of getTVLHistory.
TVLItemKept(item) ==
    /\ Truthy(item)
    /\ TypeOf(Get(item, "date")) = "number"
    /\ TypeOf(Get(item, "tvl")) = "number"

\* Lines 183-186.
MapTVLItem(item) ==
    Obj([date |-> ToNumber(Get(item, "date")), tvl |-> ToNumber(Get(item, "tvl"))])

\* Lines 174-187: the body of getTVLHistory's try block.
GetTVLHistoryBody(out) ==
    IF out.kind = "throw" THEN Thrown
    ELSE IF IsNullish(out.value) THEN Thrown
    ELSE IF ~Truthy(Get(out.value, "data")) \/ ~IsArray(Get(out.value, "data"))
         THEN Ok(Arr(<< >>))
    ELSE LET kept == SelectSeq(Get(out.value, "data").items, TVLItemKept)
         IN  Ok(Arr(SortBy([i \in 1..Len(kept) |-> MapTVLItem(kept[i])], "date")))

\* Lines 171-193.
GetTVLHistory(out) == TryCatch(GetTVLHistoryBody(out), Arr(<< >>))

\* new Date().toISOString() and Date.now() at the time of the call: some
\* ISO string and some number, which no claim reads into.
NowIso == Str(<<"n","o","w">>)
DateNow == Num(1000)

S_healthy == <<"h","e","a","l","t","h","y">>
S_stale == <<"s","t","a","l","e">>
S_unknown == <<"u","n","k","n","o","w","n">>
S_minutes == <<"m","i","n","u","t","e","s">>

\* Lines 214-219.
TVLHealthDefault ==
    Obj([lastUpdate |-> NowIso, ageInHours |-> Num(0), tvl |-> Num(0),
         status |-> Str(S_stale)])

\* Lines 198-211: the body of getTVLHealth's try block.
GetTVLHealthBody(out) ==
    IF out.kind = "throw" THEN Thrown
    ELSE IF \/ ~Truthy(out.value)
            \/ TypeOf(Get(out.value, "lastUpdate")) # "string"
            \/ TypeOf(Get(out.value, "tvl")) # "number"
         THEN Thrown
    ELSE Ok(Obj([lastUpdate |-> Get(out.value, "lastUpdate"),
                 ageInHours |-> OrElse(ToNumber(Get(out.value, "ageInHours")), Num(0)),
                 tvl |-> ToNumber(Get(out.value, "tvl")),
                 status |-> IF StrictEqualsString(Get(out.value, "status"), S_healthy)
                            THEN Str(S_healthy) ELSE Str(S_stale)]))

\* Lines 195-222.
GetTVLHealth(out) == TryCatch(GetTVLHealthBody(out), TVLHealthDefault)

\* Lines 281-289.
NetworkTPSDefault ==
    Obj([totalTps |-> Num(0), chainCount |-> Num(0), timestamp |-> DateNow,
         lastUpdate |-> NowIso, dataAge |-> Num(0), dataAgeUnit |-> Str(S_minutes),
         updatedAt |-> NowIso])

\* Lines 260-278: the body of getNetworkTPS' try block.
GetNetworkTPSBody(out) ==
    IF out.kind = "throw" THEN Thrown
    ELSE IF IsNullish(out.value) THEN Thrown
    ELSE IF ~Truthy(Get(out.value, "success")) \/ ~Truthy(Get(out.value, "data"))
         THEN Thrown
    ELSE LET data == Get(out.value, "data")
         IN  Ok(Obj([totalTps |-> OrElse(ToNumber(Get(data, "totalTps")), Num(0)),
                     chainCount |-> OrElse(ToNumber(Get(data, "chainCount")), Num(0)),
                     timestamp |-> OrElse(ToNumber(Get(data, "timestamp")), DateNow),
                     lastUpdate |-> OrElse(Get(data, "lastUpdate"), NowIso),
                     dataAge |-> OrElse(ToNumber(Get(data, "dataAge")), Num(0)),
                     dataAgeUnit |-> OrElse(Get(data, "dataAgeUnit"), Str(S_minutes)),
                     updatedAt |-> OrElse(Get(data, "updatedAt"), NowIso)]))

\* Lines 257-292.
GetNetworkTPS(out) == TryCatch(GetNetworkTPSBody(out), NetworkTPSDefault)

\* new Date(v).getTime() for a number of milliseconds (that number) and
\* for a string that is no date (NaN).
DateGetTime(v) == IF v.t = "number" THEN v ELSE NaN

\* Lines 308-311, 314-317.
HealthDefault == Obj([status |-> Str(S_unknown), timestamp |-> DateNow])

\* Lines 297-311: the body of getHealth's try block. `response?.status`
\* reads through null and undefined.
GetHealthBody(out) ==
    IF out.kind = "throw" THEN Thrown
    ELSE IF ~IsNullish(out.value) /\ TypeOf(Get(out.value, "status")) = "string"
         THEN Ok(Obj([status |-> Get(out.value, "status"),
                      timestamp |->
                          IF Truthy(Get(out.value, "currentTime"))
                          THEN DateGetTime(Get(out.value, "currentTime"))
                          ELSE DateNow]))
    ELSE Ok(HealthDefault)

\* Lines 294-320.
GetHealth(out) == TryCatch(GetHealthBody(out), HealthDefault)

\* a + b on numbers, NaN absorbing.
Plus(a, b) == IF a.t = "nan" \/ b.t = "nan" THEN NaN ELSE Num(a.n + b.n)

\* Line 339: messages.reduce((sum, msg) => sum + Number(msg.count), 0).
RECURSIVE SumCounts(_)
SumCounts(messages) ==
    IF messages = << >> THEN Num(0)
    ELSE Plus(SumCounts(SubSeq(messages, 1, Len(messages) - 1)),
              ToNumber(Get(messages[Len(messages)], "count")))

\* Lines 332-336.
MapMessage(msg) ==
    Obj([source |-> Get(msg, "source"), target |-> Get(msg, "target"),
         count |-> ToNumber(Get(msg, "count"))])

\* response.metadata?.name
GetMetadata(response, name) ==
    IF IsNullish(Get(response, "metadata")) THEN Undefined
    ELSE Get(Get(response, "metadata"), name)

\* Lines 347-355.
TeleporterDefault ==
    Obj([messages |-> Arr(<< >>),
         metadata |-> Obj([totalMessages |-> Num(0), startDate |-> NowIso,
                           endDate |-> NowIso, updatedAt |-> NowIso])])

\* Lines 325-344: the body of getTeleporterMessages' try block.
GetTeleporterMessagesBody(out) ==
    IF out.kind = "throw" THEN Thrown
    ELSE IF ~Truthy(out.value) \/ ~IsArray(Get(out.value, "messages")) THEN Thrown
    ELSE LET messages == Get(out.value, "messages").items
         IN  IF \E i \in 1..Len(messages) : IsNullish(messages[i]) THEN Thrown
             ELSE Ok(Obj([messages |->
                            Arr([i \in 1..Len(messages) |-> MapMessage(messages[i])]),
                          metadata |->
                            Obj([totalMessages |->
                                    OrElse(GetMetadata(out.value, "totalMessages"),
                                           SumCounts(messages)),
                                 startDate |->
                                    OrElse(GetMetadata(out.value, "startDate"), NowIso),
                                 endDate |->
                                    OrElse(GetMetadata(out.value, "endDate"), NowIso),
                                 updatedAt |->
                                    OrElse(GetMetadata(out.value, "updatedAt"), NowIso)])]))

\* Lines 322-358.
GetTeleporterMessages(out) == TryCatch(GetTeleporterMessagesBody(out), TeleporterDefault)

\* The accessor named fn, applied to what its fetchWithRetry call gave.
Accessor(fn, out) ==
    CASE fn = "getChains" -> GetChains(out)
      [] fn = "getTVLHistory" -> GetTVLHistory(out)
      [] fn = "getTVLHealth" -> GetTVLHealth(out)
      [] fn = "getTPSHistory" -> GetTPSHistory(out)
      [] fn = "getNetworkTPS" -> GetNetworkTPS(out)
      [] fn = "getHealth" -> GetHealth(out)
      [] fn = "getTeleporterMessages" -> GetTeleporterMessages(out)

AccessorNames == {"getChains", "getTVLHistory", "getTVLHealth", "getTPSHistory",
                  "getNetworkTPS", "getHealth", "getTeleporterMessages"}

(***************************************************************************)
(* The declared shapes of the accessors' results (types.ts)                *)
(***************************************************************************)
IsString(v) == TypeOf(v) = "string"
IsNumber(v) == TypeOf(v) = "number"
IsOptionalString(v) == v.t = "undefined" \/ IsString(v)
IsObject(v) == v.t = "object"
ValidatorShape(v) ==
    /\ IsObject(v)
    /\ IsString(Get(v, "address"))
    /\ TypeOf(Get(v, "active")) = "boolean"
    /\ IsNumber(Get(v, "uptime"))
    /\ IsNumber(Get(v, "weight"))
    /\ IsOptionalString(Get(v, "explorerUrl"))

IsValidatorList(v) ==
    IsArray(v) /\ \A i \in 1..Len(v.items) : ValidatorShape(v.items[i])

ChainShape(v) ==
    /\ IsObject(v)
    /\ IsString(Get(v, "chainId"))
    /\ IsString(Get(v, "chainName"))
    /\ \/ Get(v, "tps") = Null
       \/ /\ IsObject(Get(v, "tps"))
          /\ IsNumber(Get(Get(v, "tps"), "value"))
          /\ IsNumber(Get(Get(v, "tps"), "timestamp"))
    /\ IsValidatorList(Get(v, "validators"))
    /\ IsOptionalString(Get(v, "explorerUrl"))

TVLHistoryShape(v) ==
    IsObject(v) /\ IsNumber(Get(v, "date")) /\ IsNumber(Get(v, "tvl"))

TVLHealthShape(v) ==
    /\ IsObject(v)
    /\ IsString(Get(v, "lastUpdate"))
    /\ IsNumber(Get(v, "ageInHours"))
    /\ IsNumber(Get(v, "tvl"))
    /\ Get(v, "status") \in {Str(S_healthy), Str(S_stale)}

NetworkTPSShape(v) ==
    /\ IsObject(v)
    /\ IsNumber(Get(v, "totalTps"))
    /\ IsNumber(Get(v, "chainCount"))
    /\ IsNumber(Get(v, "timestamp"))
    /\ IsString(Get(v, "lastUpdate"))
    /\ IsNumber(Get(v, "dataAge"))
    /\ IsString(Get(v, "dataAgeUnit"))
    /\ IsString(Get(v, "updatedAt"))

TPSHistoryShape(v) ==
    /\ IsObject(v)
    /\ IsNumber(Get(v, "timestamp"))
    /\ IsNumber(Get(v, "totalTps"))
    /\ IsNumber(Get(v, "chainCount"))
    /\ IsNumber(Get(v, "date"))

HealthStatusShape(v) ==
    IsObject(v) /\ IsString(Get(v, "status")) /\ IsNumber(Get(v, "timestamp"))

TeleporterMessageShape(v) ==
    /\ IsObject(v)
    /\ IsString(Get(v, "source"))
    /\ IsString(Get(v, "target"))
    /\ IsNumber(Get(v, "count"))

TeleporterMessageDataShape(v) ==
    /\ IsObject(v)
    /\ IsArray(Get(v, "messages"))
    /\ \A i \in 1..Len(Get(v, "messages").items) :
           TeleporterMessageShape(Get(v, "messages").items[i])
    /\ IsObject(Get(v, "metadata"))
    /\ IsNumber(Get(Get(v, "metadata"), "totalMessages"))
    /\ IsString(Get(Get(v, "metadata"), "startDate"))
    /\ IsString(Get(Get(v, "metadata"), "endDate"))
    /\ IsString(Get(Get(v, "metadata"), "updatedAt"))

\* The return type in the signature of the accessor named fn (api.ts lines
\* 146, 171, 195, 224, 257, 294, 322).
HasDeclaredShape(fn, v) ==
    CASE fn = "getChains" ->
            IsArray(v) /\ \A i \in 1..Len(v.items) : ChainShape(v.items[i])
      [] fn = "getTVLHistory" ->
            IsArray(v) /\ \A i \in 1..Len(v.items) : TVLHistoryShape(v.items[i])
      [] fn = "getTVLHealth" -> TVLHealthShape(v)
      [] fn = "getTPSHistory" ->
            IsArray(v) /\ \A i \in 1..Len(v.items) : TPSHistoryShape(v.items[i])
      [] fn = "getNetworkTPS" -> NetworkTPSShape(v)
      [] fn = "getHealth" -> HealthStatusShape(v)
      [] fn = "getTeleporterMessages" -> TeleporterMessageDataShape(v)

(***************************************************************************)
(* What the backend can answer: the parsed bodies the model draws from.    *)
(***************************************************************************)
S_v1 == <<"v","1">>
S_X == <<"X">>
S_inactive == <<"i","n","a","c","t","i","v","e">>
S_Active == <<"A","c","t","i","v","e">>
S_500 == <<"5","0","0">>
S_abc == <<"a","b","c">>
S_minus5 == <<"-","5">>

RawValidator(nodeId, status, uptime, staked) ==
    Obj([nodeId |-> nodeId, validationStatus |-> status,
         uptimePerformance |-> uptime, amountStaked |-> staked])

RawValidators ==
    {RawValidator(id, st, up, am) :
        id \in {Str(S_v1), Undefined},
        st \in {Str(S_active), Str(S_inactive), Str(S_Active), Undefined},
        up \in {Num(99), Undefined},
        am \in {Str(S_500), Str(S_minus5), Str(S_abc), Num(7), Undefined}}

GoodValidator == RawValidator(Str(S_v1), Str(S_active), Num(99), Str(S_500))

RawChain(chainId, tps, validators, explorerUrl) ==
    Obj([chainId |-> chainId, chainName |-> Str(S_abc), tps |-> tps,
         validators |-> validators, explorerUrl |-> explorerUrl])

RawTps == Obj([value |-> Str(S_500), timestamp |-> Num(1)])

WellFormedChain == RawChain(Str(S_X), RawTps, Arr(<<GoodValidator>>), Undefined)

\* Chains with every list of validators, and chains whose own properties
\* are missing or of the wrong type.
ChainsByValidators ==
    {RawChain(Str(S_X), Undefined, Arr(list), url) :
        list \in SeqsUpTo(RawValidators, MaxValidators),
        url \in {Undefined, Str(<<"u">>)}}

ChainsByProperties ==
    {RawChain(id, tps, validators, Undefined) :
        id \in {Str(S_X), Undefined, Num(5)},
        tps \in {Undefined, Null, RawTps},
        validators \in {Undefined, Null, Str(S_abc), Arr(<< >>), Arr(<<Null>>),
                        Arr(<<GoodValidator>>)}}
    \cup {Null}

ErrorEnvelope == Obj([error |-> Str(S_abc)])

ChainsBodies ==
    {Null, ErrorEnvelope, Arr(<< >>)}
    \cup {Arr(<<chain>>) : chain \in ChainsByValidators \cup ChainsByProperties}
    \cup {Arr(<<WellFormedChain, chain>>) : chain \in ChainsByProperties}

TPSItems ==
    {Obj([timestamp |-> ts, value |-> v, totalTps |-> tt, chainCount |-> Undefined]) :
        ts \in {Num(1), Num(2), Str(<<"1">>)},
        v \in {Num(5), Undefined, Str(S_abc)},
        tt \in {Num(7), Undefined}}
    \cup {Null}

TPSBodies ==
    {Null, ErrorEnvelope}
    \cup {Obj([success |-> ok, data |-> data]) :
            ok \in {Bool(TRUE), Bool(FALSE), Undefined},
            data \in {Undefined, Null, Str(S_abc), ErrorEnvelope}}
    \cup {Obj([success |-> ok, data |-> Arr(items)]) :
            ok \in {Bool(TRUE), Bool(FALSE), Undefined},
            items \in SeqsUpTo(TPSItems, MaxSeries)}

TVLItems ==
    {Obj([date |-> d, tvl |-> v]) :
        d \in {Num(1), Num(2), Str(<<"1">>), Undefined},
        v \in {Num(5), Str(S_500), Undefined}}
    \cup {Null}

TVLBodies ==
    {Null, ErrorEnvelope}
    \cup {Obj([data |-> data]) : data \in {Undefined, Null, Str(S_abc), ErrorEnvelope}}
    \cup {Obj([data |-> Arr(items)]) : items \in SeqsUpTo(TVLItems, MaxSeries)}

TVLHealthBodies ==
    {Null, ErrorEnvelope}
    \cup {Obj([lastUpdate |-> lu, ageInHours |-> age, tvl |-> v, status |-> st]) :
            lu \in {NowIso, Undefined, Num(5)},
            age \in {Num(2), Str(S_abc), Undefined},
            v \in {Num(5), Str(S_500), Undefined},
            st \in {Str(S_healthy), Str(S_stale), Str(S_abc), Undefined}}

NetworkTPSBodies ==
    {Null, ErrorEnvelope}
    \cup {Obj([success |-> ok, data |-> data]) :
            ok \in {Bool(TRUE), Bool(FALSE)},
            data \in {Undefined, Null, Num(5)}}
    \cup {Obj([success |-> Bool(TRUE),
               data |-> Obj([totalTps |-> tt, chainCount |-> cc, timestamp |-> Num(1),
                             lastUpdate |-> lu, dataAge |-> Num(3),
                             dataAgeUnit |-> unit, updatedAt |-> NowIso])]) :
            tt \in {Num(7), Str(S_500), Str(S_abc), Undefined},
            cc \in {Num(3), Undefined},
            lu \in {NowIso, Undefined, Num(5)},
            unit \in {Str(S_minutes), Undefined, Num(5)}}

S_ok == <<"o","k">>

HealthBodies ==
    {Null, ErrorEnvelope}
    \cup {Obj([status |-> st, currentTime |-> ct]) :
            st \in {Str(S_ok), Str(S_healthy), Str(S_abc), Num(5), Undefined},
            ct \in {Undefined, Num(5), Str(S_abc)}}

TeleporterMessages ==
    {Obj([source |-> src, target |-> Str(S_X), count |-> n]) :
        src \in {Str(S_abc), Num(5), Undefined},
        n \in {Num(5), Str(S_500), Str(S_abc), Undefined}}
    \cup {Null}

TeleporterMetadata ==
    {Undefined, Null}
    \cup {Obj([totalMessages |-> tm, startDate |-> sd, endDate |-> NowIso,
               updatedAt |-> NowIso]) :
            tm \in {Num(5), Num(0), Str(S_500), Undefined},
            sd \in {NowIso, Undefined, Num(5)}}

TeleporterBodies ==
    {Null, ErrorEnvelope}
    \cup {Obj([messages |-> m, metadata |-> Undefined]) : m \in {Undefined, Null, Str(S_abc)}}
    \cup {Obj([messages |-> Arr(list), metadata |-> md]) :
            list \in SeqsUpTo(TeleporterMessages, 1), md \in TeleporterMetadata}

Bodies(fn) ==
    CASE fn = "getChains" -> ChainsBodies
      [] fn = "getTVLHistory" -> TVLBodies
      [] fn = "getTVLHealth" -> TVLHealthBodies
      [] fn = "getTPSHistory" -> TPSBodies
      [] fn = "getNetworkTPS" -> NetworkTPSBodies
      [] fn = "getHealth" -> HealthBodies
      [] fn = "getTeleporterMessages" -> TeleporterBodies

(***************************************************************************)
(* One accessor fetcher from its call to its result                        *)
(***************************************************************************)
NoValue == [kind |-> "none", value |-> Undefined]

\* fetchWithRetry returns the parsed body of a 2xx JSON response (line 77).
FetchReturnsBody ==
    /\ apc = "fetching"
    /\ \E body \in Bodies(acall.fn) :
           fetched' = [kind |-> "return", value |-> body]
    /\ apc' = "fetched"
    /\ UNCHANGED <<acall, aresult>>

\* fetchWithRetry leaves through getFallbackData (lines 88, 104), which
\* raises.
FetchThrows ==
    /\ apc = "fetching"
    /\ fetched' = [kind |-> GetFallbackData.kind, value |-> Undefined]
    /\ apc' = "fetched"
    /\ UNCHANGED <<acall, aresult>>

\* The rest of the fetcher: validate, normalise, or catch and default.
FetcherSettles ==
    /\ apc = "fetched"
    /\ aresult' = Accessor(acall.fn, fetched)
    /\ apc' = "settled"
    /\ UNCHANGED <<acall, fetched>>

InitAccessor ==
    /\ apc = "fetching"
    /\ acall \in {[fn |-> name] : name \in AccessorNames}
    /\ fetched = NoValue
    /\ aresult = NoValue

AccessorIdle ==
    /\ apc = "idle"
    /\ acall = [fn |-> "none"]
    /\ fetched = NoValue
    /\ aresult = NoValue

\* A fetcher's try block and catch clause work on their own locals.
OutsideAccessor ==
    UNCHANGED <<retryVars, cacheVars, transformVars, pollVars, storeVars>>

NextAccessor ==
    \/ FetchReturnsBody /\ OutsideAccessor
    \/ FetchThrows /\ OutsideAccessor
    \/ FetcherSettles /\ OutsideAccessor

(***************************************************************************)
(* Derived-data transforms of the chart components                         *)
(***************************************************************************)
DayMs == 24 * 60 * 60 * 1000

\* new Date(ms).setHours(0, 0, 0, 0): the epoch milliseconds of the local
\* midnight at or before ms, in a zone `offset` milliseconds east of UTC.
LocalMidnight(ms, offset) == ((ms + offset) \div DayMs) * DayMs - offset

\* TVLGraph.jsx line 17: the key of an entry's day.
DateKey(entry, offset) == LocalMidnight(Get(entry, "date").n * 1000, offset)

\* A comparison that lets the first sample of a day stand.
ReplacesNever(stored, entry) == FALSE

\* TVLGraph.jsx line 18: dateMap.get(date).date < entry.date.
Replaces(stored, entry) == Get(stored, "date").n < Get(entry, "date").n

\* TVLGraph.jsx lines 17-20: one pass of the forEach. The Map is the
\* sequence of its [key, value] pairs in insertion order; set() on a key it
\* has replaces the value where it stands.
DedupStep(map, entry, offset) ==
    LET key == DateKey(entry, offset)
        at == {i \in 1..Len(map) : map[i].key = key}
    IN  IF at = {} THEN Append(map, [key |-> key, value |-> entry])
        ELSE LET i == CHOOSE i \in at : TRUE
             IN  IF Replaces(map[i].value, entry)
                 THEN [map EXCEPT ![i].value = entry]
                 ELSE map

\* TVLGraph.jsx lines 14-21: the Map after the forEach over data.
RECURSIVE DateMap(_, _)
DateMap(data, offset) ==
    IF data = << >> THEN << >>
    ELSE DedupStep(DateMap(SubSeq(data, 1, Len(data) - 1), offset),
                   data[Len(data)], offset)

\* TVLGraph.jsx lines 13-24.
DeduplicateByDate(data, offset) ==
    LET map == DateMap(data, offset)
    IN  SortBy([i \in 1..Len(map) |-> map[i].value], "date")

\* TVL samples around midnight: two days in UTC, split otherwise one hour
\* east of it; two samples of one instant differ in their tvl.
SampleDates == {0, 1, 86399, 86400, 90000}
TVLSamples ==
    {Obj([date |-> Num(d), tvl |-> Num(v)]) : d \in SampleDates, v \in {5, 6}}
ZoneOffsets == {0, 60 * 60 * 1000}

DedupCalls ==
    {[fn |-> "deduplicateByDate", data |-> data, offset |-> offset] :
        data \in SeqsUpTo(TVLSamples, MaxSamples), offset \in ZoneOffsets}

\* parseFloat(v) for undefined, an integer, or a string of digits, letters
\* and "-": the longest optionally signed run of digits at the start is the
\* value, and there is none in NaN.
RECURSIVE DigitPrefix(_)
DigitPrefix(chars) ==
    IF chars = << >> \/ Head(chars) \notin Digits THEN << >>
    ELSE <<Head(chars)>> \o DigitPrefix(Tail(chars))

ParseFloat(v) ==
    CASE v.t = "number" -> v
      [] v.t = "string" ->
            IF v.s # << >> /\ Head(v.s) = "-"
            THEN IF DigitPrefix(Tail(v.s)) = << >> THEN NaN
                 ELSE Num(-DigitsToNat(DigitPrefix(Tail(v.s))))
            ELSE IF DigitPrefix(v.s) = << >> THEN NaN
                 ELSE Num(DigitsToNat(DigitPrefix(v.s)))
      [] OTHER -> NaN

\* part_007 lines 342, 346: parseFloat(validator.amountStaked) || 0.
StakeOf(validator) == OrElse(ParseFloat(Get(validator, "amountStaked")), Num(0)).n

\* part_007 lines 337-339: the filter on the status.
HasActiveStatus(validator) ==
    StrictEqualsString(Get(validator, "validationStatus"), S_active)

\* part_007 lines 341-343: the reduce.
RECURSIVE TotalStakeOf(_)
TotalStakeOf(validators) ==
    IF validators = << >> THEN 0
    ELSE TotalStakeOf(SubSeq(validators, 1, Len(validators) - 1))
         + StakeOf(validators[Len(validators)])

\* part_007 lines 347, 351: Number(((stake / total) * 100).toFixed(2)), held
\* as a count of hundredths of a percent; 0 / 0 is NaN, and toFixed and
\* Number keep it. Stakes are not negative here.
Percentage(stake, total) ==
    IF total = 0 THEN NaN
    ELSE Num((2 * stake * 10000 + total) \div (2 * total))

\* part_007 line 355: sort((a, b) => b.value - a.value), stable; a
\* comparator that returns NaN leaves the two elements as they stand.
RECURSIVE SortByValueDescending(_)
InsertByValueDescending(x, q) ==
    LET before == {i \in 1..Len(q) :
                      \/ x.value.t = "nan" \/ q[i].value.t = "nan"
                      \/ q[i].value.n >= x.value.n}
        k == IF before = {} THEN 0
             ELSE CHOOSE i \in before : \A j \in before : j <= i
    IN  SubSeq(q, 1, k) \o <<x>> \o SubSeq(q, k + 1, Len(q))
SortByValueDescending(q) ==
    IF q = << >> THEN << >>
    ELSE InsertByValueDescending(q[Len(q)],
                                 SortByValueDescending(SubSeq(q, 1, Len(q) - 1)))

\* part_007 lines 334-356. `draws` holds what Math.random() * 360 gave for
\* each active validator, in thousandths of a degree. value is in
\* hundredths of a percent.
CalculateStakeDistribution(validators, draws) ==
    IF validators = << >> THEN << >>
    ELSE LET active == SelectSeq(validators, HasActiveStatus)
             total == TotalStakeOf(active)
         IN  SortByValueDescending(
                 [i \in 1..Len(active) |->
                     [name |-> Get(active[i], "nodeId"),
                      value |-> Percentage(StakeOf(active[i]), total),
                      stake |-> StakeOf(active[i]),
                      fill |-> [hue |-> draws[i], saturation |-> 70,
                                lightness |-> 50]]])

\* StakeDistributionChart.tsx lines 25-30 and 127-132: the colour of a
\* rank, the hue in thousandths of a degree.
GetValidatorColor(index, isDark) ==
    [hue |-> (index * 137508) % 360000,
     saturation |-> IF isDark THEN 80 ELSE 70,
     lightness |-> IF isDark THEN 60 ELSE 50]

S_250 == <<"2","5","0">>
S_0 == <<"0">>

UpperCaseLetters ==
    <<"A","B","C","D","E","F","G","H","I","J","K","L","M",
      "N","O","P","Q","R","S","T","U","V","W","X","Y","Z">>
LowerCaseLetters ==
    <<"a","b","c","d","e","f","g","h","i","j","k","l","m",
      "n","o","p","q","r","s","t","u","v","w","x","y","z">>

\* A comparison that keeps the case of the text.
ToLowerCaseSkipped(chars) == chars

\* String.prototype.toLowerCase on letters, digits and signs.
ToLowerCase(chars) ==
    [i \in 1..Len(chars) |->
        IF \E k \in 1..26 : UpperCaseLetters[k] = chars[i]
        THEN LowerCaseLetters[CHOOSE k \in 1..26 : UpperCaseLetters[k] = chars[i]]
        ELSE chars[i]]

\* StatusBar.tsx line 46: health?.status.toLowerCase() === 'ok' ||
\* health?.status.toLowerCase() === 'healthy'; status is a string whenever
\* health is not null.
IsHealthy(health) ==
    LET lowered == IF health.t \in {"null", "undefined"} THEN Undefined
                   ELSE Str(ToLowerCase(Get(health, "status").s))
    IN  \/ StrictEqualsString(lowered, S_ok)
        \/ StrictEqualsString(lowered, S_healthy)

S_OK == <<"O","K">>
S_Ok == <<"O","k">>
S_Healthy == <<"H","e","a","l","t","h","y">>
S_HEALTHY == <<"H","E","A","L","T","H","Y">>
S_okay == <<"o","k","a","y">>
S_unhealthy == <<"u","n","h","e","a","l","t","h","y">>

\* What getHealth resolves with (api.ts lines 300-316): a status that is
\* some string, and a time in milliseconds.
HealthStatuses ==
    {S_ok, S_OK, S_Ok, S_healthy, S_Healthy, S_HEALTHY, S_unknown, S_stale,
     S_okay, S_unhealthy, << >>}
HealthTimestamps == {0, 1000, 300000}

\* The health prop of StatusBar: null until the first load, then what
\* getHealth gave.
HealthCalls ==
    {[fn |-> "isHealthy", health |-> h] :
        h \in {Null} \cup {Obj([status |-> Str(st), timestamp |-> Num(ts)]) :
                              st \in HealthStatuses, ts \in HealthTimestamps}}

\* A score that is cut to an integer instead of rounded.
RoundedDown(sixths) == sixths \div 6

\* App.tsx line 72: Math.round of a score held in sixths of a point (the
\* halves go up).
Rounded(sixths) == (2 * sixths + 6) \div 12

\* A filter that forgets the status.
CountsAsActiveAnyStatus(v) ==
    LET stake == ParseFloat(Get(v, "amountStaked"))
    IN  stake.t = "number" /\ stake.n > 0

\* App.tsx lines 26-30: the filter for active validators.
CountsAsActive(v) ==
    LET stake == ParseFloat(Get(v, "amountStaked"))
    IN  /\ stake.t = "number" /\ stake.n > 0
        /\ StrictEqualsString(Get(v, "validationStatus"), S_active)

\* A score that forgets the 85 points above ten validators.
ScoreSixthsWithoutBase(n) ==
    LET base == 20 * 6
        over5 == IF n > 5 THEN base + 20 * 6 ELSE base
        at10 == IF n = 10 THEN 85 * 6 ELSE over5
    IN  IF n > 10 THEN (IF n - 10 < 15 * 6 THEN n - 10 ELSE 15 * 6) ELSE at10

\* App.tsx lines 46-64: the score before rounding, in sixths of a point:
\* (n - 10) / 90 * 15 is (n - 10) sixths.
ScoreSixths(n) ==
    LET base == 20 * 6
        over5 == IF n > 5 THEN base + 20 * 6 ELSE base
        at10 == IF n = 10 THEN 85 * 6 ELSE over5
        Min(a, b) == IF a < b THEN a ELSE b
    IN  IF n > 10 THEN 85 * 6 + Min(n - 10, 15 * 6) ELSE at10

\* App.tsx lines 18-73.
CalculateScore(validators) ==
    IF ~IsArray(validators) THEN Num(0)
    ELSE LET n == Len(SelectSeq(validators.items, CountsAsActive))
             rounded == Rounded(ScoreSixths(n))
         IN  IF n = 0 THEN Num(0)
             ELSE Num(IF rounded < 100 THEN rounded ELSE 100)

\* Validators that the score must not count: no stake, a stake that is no
\* number or is negative, a status that is not exactly "active".
Uncounted ==
    {RawValidator(Str(S_v1), Str(S_active), Num(99), Str(S_0)),
     RawValidator(Str(S_v1), Str(S_active), Num(99), Str(S_abc)),
     RawValidator(Str(S_v1), Str(S_active), Num(99), Str(S_minus5)),
     RawValidator(Str(S_v1), Str(S_inactive), Num(99), Str(S_500)),
     RawValidator(Str(S_v1), Str(S_Active), Num(99), Str(S_500))}

\* App.tsx line 176: chain.validators || [] is a list of `counted` staking
\* active validators and at most one other, or some value that is no list.
ScoreCalls ==
    {[fn |-> "calculateScore",
      validators |-> Arr(others \o [i \in 1..counted |->
                            RawValidator(Str(S_v1), Str(S_active), Num(99), Str(S_500))])] :
        counted \in 0..MaxActive, others \in SeqsUpTo(Uncounted, 1)}
    \cup {[fn |-> "calculateScore", validators |-> Str(S_abc)]}

\* Raw validators as the store keeps them: active or not, with a stake
\* that is a number in text, zero, or no number.
Stakers ==
    {RawValidator(Str(S_v1), st, Num(99), am) :
        st \in {Str(S_active), Str(S_inactive)},
        am \in {Str(S_500), Str(S_250), Str(S_0), Str(S_abc)}}

StakeCalls ==
    {[fn |-> "calculateStakeDistribution", validators |-> list] :
        list \in SeqsUpTo(Stakers, MaxStakers)}

ColorCalls ==
    {[fn |-> "getValidatorColor", index |-> k, isDark |-> dark] :
        k \in 0..MaxStakers, dark \in BOOLEAN}

\* What Math.random() * 360 can give, in thousandths of a degree.
RandomHues == {0, 137508}

TransformCalls == DedupCalls \cup StakeCalls \cup ColorCalls \cup ScoreCalls
                  \cup HealthCalls

\* The values Math.random() gives during one call of the transform.
RandomDraws(call) ==
    IF call.fn = "calculateStakeDistribution"
    THEN [1..Len(SelectSeq(call.validators, HasActiveStatus)) -> RandomHues]
    ELSE {<< >>}

\* The transform named in the call, applied to its arguments.
Transform(call, draws) ==
    CASE call.fn = "deduplicateByDate" -> DeduplicateByDate(call.data, call.offset)
      [] call.fn = "calculateStakeDistribution" ->
            CalculateStakeDistribution(call.validators, draws)
      [] call.fn = "getValidatorColor" -> GetValidatorColor(call.index, call.isDark)
      [] call.fn = "calculateScore" -> CalculateScore(call.validators)
      [] call.fn = "isHealthy" -> Bool(IsHealthy(call.health))

TransformReturns ==
    /\ tpc = "called"
    /\ \E draws \in RandomDraws(tcall) : tout' = Transform(tcall, draws)
    /\ tpc' = "returned"
    /\ UNCHANGED <<tcall, tagain>>

\* The same call made again (a re-render): the memo of the stake
\* distribution recomputed over the same list, the colour of the same rank
\* asked again.
TransformRecomputed ==
    /\ tpc = "returned"
    /\ tcall.fn \in {"calculateStakeDistribution", "getValidatorColor"}
    /\ \E draws \in RandomDraws(tcall) : tagain' = Transform(tcall, draws)
    /\ tpc' = "recomputed"
    /\ UNCHANGED <<tcall, tout>>

\* deduplicateByDate given its own output.
TransformReapplied ==
    /\ tpc = "returned"
    /\ tcall.fn = "deduplicateByDate"
    /\ tagain' = DeduplicateByDate(tout, tcall.offset)
    /\ tpc' = "reapplied"
    /\ UNCHANGED <<tcall, tout>>

InitTransform ==
    /\ tpc = "called"
    /\ tcall \in TransformCalls
    /\ tout = << >>
    /\ tagain = << >>

\* The transforms are functions of their arguments.
OutsideTransform ==
    UNCHANGED <<retryVars, cacheVars, accessorVars, pollVars, storeVars>>

NextTransform ==
    \/ TransformReturns /\ OutsideTransform
    \/ TransformReapplied /\ OutsideTransform
    \/ TransformRecomputed /\ OutsideTransform

(***************************************************************************)
(* The polling effects: Dashboard.tsx lines 59-68 (with fetchData, lines   *)
(* 20-57) and TPSChart.tsx lines 46-92. A fetch is one call of the         *)
(* accessors, in flight from its start to the run of the code that waits   *)
(* for it.                                                                 *)
(***************************************************************************)
\* The effect runs when the view is first rendered. Both views call their
\* fetchData, which calls setLoading and setError before its first await,
\* and arm the interval; TPSChart sets mounted.
EffectRuns(v) ==
    /\ interval[v] = "none"
    /\ setterCalls' = [setterCalls EXCEPT ![v] = @ + 1]
    /\ pending' = [pending EXCEPT ![v].effect = 1]
    /\ interval' = [interval EXCEPT ![v] = "armed"]
    /\ mounted' = IF v = "TPSChart" THEN TRUE ELSE mounted
    /\ UNCHANGED <<cleanedUp, ticks>>

\* The interval fires; a cleared interval never does. Dashboard starts
\* getHealth and calls no setter yet; TPSChart calls fetchData, which calls
\* setLoading, setError and setRetrying before it awaits.
IntervalTicks(v) ==
    /\ interval[v] = "armed"
    /\ ticks[v] < MaxTicks
    /\ ticks' = [ticks EXCEPT ![v] = @ + 1]
    /\ pending' = [pending EXCEPT ![v].tick = @ + 1]
    /\ setterCalls' = [setterCalls EXCEPT ![v] = IF v = "TPSChart" THEN @ + 1 ELSE @]
    /\ UNCHANGED <<interval, mounted, cleanedUp>>

\* Whether the code that waits for a fetch calls a setter when the fetch
\* settles. Dashboard's fetchData sets state on either outcome (lines 48-55)
\* and its tick calls setHealth on success only (line 64); TPSChart calls
\* setters only under `if (mounted)` (lines 57, 67, 74, 78).
SetsState(v, origin, resolved) ==
    IF v = "TPSChart" THEN mounted
    ELSE origin = "effect" \/ resolved

\* A fetch in flight settles and the code waiting for it runs.
FetchSettles(v, origin, resolved) ==
    /\ pending[v][origin] > 0
    /\ pending' = [pending EXCEPT ![v][origin] = @ - 1]
    /\ setterCalls' = [setterCalls EXCEPT ![v] =
                          IF SetsState(v, origin, resolved) THEN @ + 1 ELSE @]
    /\ UNCHANGED <<interval, mounted, cleanedUp, ticks>>

\* The view is torn down and React runs the effect's cleanup: Dashboard
\* clears its interval (line 67); TPSChart also resets mounted (lines 88-91).
CleanupRuns(v) ==
    /\ interval[v] = "armed"
    /\ interval' = [interval EXCEPT ![v] = "cleared"]
    /\ mounted' = IF v = "TPSChart" THEN FALSE ELSE mounted
    /\ cleanedUp' = [cleanedUp EXCEPT ![v] = TRUE]
    /\ UNCHANGED <<pending, ticks, setterCalls>>

InitPoll == PollIdle

OutsidePoll ==
    UNCHANGED <<retryVars, cacheVars, accessorVars, transformVars, storeVars>>

NextPoll ==
    \/ \E v \in Views : EffectRuns(v) /\ OutsidePoll
    \/ \E v \in Views : IntervalTicks(v) /\ OutsidePoll
    \/ \E v \in Views, origin \in {"effect", "tick"}, resolved \in BOOLEAN :
          FetchSettles(v, origin, resolved) /\ OutsidePoll
    \/ \E v \in Views : CleanupRuns(v) /\ OutsidePoll

(***************************************************************************)
(* The store's fetchBlockchainData and fetchCombinedTpsData                *)
(* (appStore.jsx lines 76-221).                                            *)
(***************************************************************************)
\* zustand's set(partial): the properties named are replaced, the others
\* kept.
Set(state, partial) ==
    [k \in DOMAIN state |-> IF k \in DOMAIN partial THEN partial[k] ELSE state[k]]

\* Chains as GET /api/chains lists them, by chain id, and the samples of
\* GET /api/tps/network/history, by timestamp.
StoreChainLists == {<< >>, <<"X">>, <<"X", "Y">>}
StoreTpsLists ==
    {<< >>,
     <<Obj([timestamp |-> Num(1)])>>,
     <<Obj([timestamp |-> Num(2)]), Obj([timestamp |-> Num(1)])>>}

\* Lines 132-172: one entry per chain, with its id.
TransformChains(data) == [i \in 1..Len(data) |-> [chainId |-> data[i]]]

\* Lines 77-83: the call sets isLoading and awaits the fetch of the chains.
FetchBlockchainDataCalled ==
    /\ spc \in {"idle", "resolved", "rejected"}
    /\ scalls < MaxStoreCalls
    /\ scalls' = scalls + 1
    /\ store' = Set(store, [isLoading |-> Bool(TRUE)])
    /\ spc' = "chains"
    /\ sresult' = [kind |-> "pending"]
    /\ UNCHANGED transformedData

\* A catch that leaves blockchainData as it is.
CaughtKeepsData == [isLoading |-> Bool(FALSE)]

\* Line 186: what the catch of fetchBlockchainData sets.
Caught == [blockchainData |-> << >>, isLoading |-> Bool(FALSE)]

\* Lines 83-91, 184-187: the fetch of the chains fails (it rejects, the
\* status is not ok, or the body is no JSON list).
ChainsFetchFails ==
    /\ spc = "chains"
    /\ store' = Set(store, Caught)
    /\ spc' = "rejected"
    /\ sresult' = [kind |-> "reject", error |-> "chains"]
    /\ UNCHANGED <<transformedData, scalls>>

\* Lines 91-181: the chains arrive, each gets its TPS or a null one (the
\* inner catch lets no failure out), the list is transformed and set, and
\* fetchCombinedTpsData is called, which awaits its fetch (line 196).
ChainsLoaded(data) ==
    /\ spc = "chains"
    /\ transformedData' = TransformChains(data)
    /\ store' = Set(store, [blockchainData |-> TransformChains(data),
                             isLoading |-> Bool(FALSE)])
    /\ spc' = "tps"
    /\ UNCHANGED <<sresult, scalls>>

\* Lines 196-219: the fetch of the network TPS fails (it rejects, the
\* status is not ok, success is not set, or data cannot be sorted):
\* fetchCombinedTpsData sets tpsData and throws.
TpsFetchFails ==
    /\ spc = "tps"
    /\ store' = Set(store, [tpsData |-> << >>])
    /\ spc' = "tpsThrew"
    /\ UNCHANGED <<transformedData, sresult, scalls>>

\* Lines 181, 184-187: the await of line 181 throws what
\* fetchCombinedTpsData threw, and the catch sets the store and throws it
\* again.
TpsFailureCaught ==
    /\ spc = "tpsThrew"
    /\ store' = Set(store, Caught)
    /\ spc' = "rejected"
    /\ sresult' = [kind |-> "reject", error |-> "tps"]
    /\ UNCHANGED <<transformedData, scalls>>

\* Lines 202-215, 183: the samples arrive, are sorted and set, and
\* fetchBlockchainData returns transformedData.
TpsLoaded(samples) ==
    /\ spc = "tps"
    /\ store' = Set(store, [tpsData |-> SortBy(samples, "timestamp")])
    /\ spc' = "resolved"
    /\ sresult' = [kind |-> "resolve", value |-> transformedData]
    /\ UNCHANGED <<transformedData, scalls>>

InitStore == StoreIdle

OutsideStore ==
    UNCHANGED <<retryVars, cacheVars, accessorVars, transformVars, pollVars>>

NextStore ==
    \/ FetchBlockchainDataCalled /\ OutsideStore
    \/ ChainsFetchFails /\ OutsideStore
    \/ \E data \in StoreChainLists : ChainsLoaded(data) /\ OutsideStore
    \/ TpsFetchFails /\ OutsideStore
    \/ TpsFailureCaught /\ OutsideStore
    \/ \E samples \in StoreTpsLists : TpsLoaded(samples) /\ OutsideStore

(***************************************************************************)
(* Specifications                                                          *)
(***************************************************************************)
\* fetchWithRetry on its own: no cache call and no accessor in progress.
InitSpecRetry ==
    InitRetry /\ CacheIdle /\ AccessorIdle /\ TransformIdle /\ PollIdle /\ StoreIdle

SpecRetry ==
    InitSpecRetry
    /\ [][NextRetry]_vars

\* The event loop runs a timer callback that is due, ends a sleep that is
\* due and rejects a fetch whose signal is aborted; the transport owes no
\* answer, and nothing obliges a page to start a call.
FairnessRetry ==
    \A c \in RetryCalls :
        /\ WF_vars(TimeoutFires(c) /\ OutsideRetry)
        /\ WF_vars(AbortRejects(c) /\ OutsideRetry)
        /\ WF_vars(BackoffEnds(c) /\ OutsideRetry)

FairSpecRetry == SpecRetry /\ FairnessRetry

\* fetchWithCache on its own.
InitSpecCache ==
    InitCache /\ RetryIdle /\ AccessorIdle /\ TransformIdle /\ PollIdle /\ StoreIdle

SpecCache ==
    InitSpecCache
    /\ [][NextCache]_vars

\* getChains through fetchWithCache on its own.
SpecCacheChains ==
    InitSpecCache
    /\ [][NextCacheChains]_vars

\* One accessor's fetcher on its own.
InitSpecAccessor ==
    InitAccessor /\ RetryIdle /\ CacheIdle /\ TransformIdle /\ PollIdle /\ StoreIdle

SpecAccessor ==
    InitSpecAccessor
    /\ [][NextAccessor]_vars

\* One transform on its own.
InitSpecTransform ==
    InitTransform /\ RetryIdle /\ CacheIdle /\ AccessorIdle /\ PollIdle /\ StoreIdle

SpecTransform ==
    InitSpecTransform
    /\ [][NextTransform]_vars

\* The store's fetchBlockchainData on its own.
InitSpecStore ==
    InitStore /\ RetryIdle /\ CacheIdle /\ AccessorIdle /\ TransformIdle /\ PollIdle

SpecStore ==
    InitSpecStore
    /\ [][NextStore]_vars

\* The polling effects on their own.
InitSpecPoll ==
    InitPoll /\ RetryIdle /\ CacheIdle /\ AccessorIdle /\ TransformIdle /\ StoreIdle

SpecPoll ==
    InitSpecPoll
    /\ [][NextPoll]_vars

(***************************************************************************)
(* Claims on fetchWithRetry                                                *)
(***************************************************************************)
Settled(c) == rpc[c] \in {"returned", "exhausted", "cors"}

\* C3 as stated: a call whose every attempt failed with a retryable error
\* has called the transport exactly `retries` times and returns the
\* fallback value; it does not throw.
C3_RetryCeilingThenFallback ==
    \A c \in RetryCalls :
        rpc[c] = "exhausted" =>
            /\ transportCalls[c] = retries[c]
            /\ retryResult[c] = FallbackValue

\* C4 as stated: a CORS failure ends the call at once (the failed request
\* is the last one the call made, no sleep follows it) and the call returns
\* the fallback value.
C4_CorsShortCircuitsToFallback ==
    \A c \in RetryCalls :
        rpc[c] = "cors" =>
            /\ transportCalls[c] = attempt[c] + 1
            /\ backoffSleeps[c] = attempt[c]
            /\ retryResult[c] = FallbackValue

\* C6 as stated: every call that has started eventually returns, whatever
\* the transport does.
C6_EveryCallReturns ==
    \A c \in RetryCalls : (rpc[c] # "idle") ~> Settled(c)

\* The safety side of C6: a request waiting for its response is covered by
\* the call's timer, pending or fired.
C6_RequestInFlightIsTimed ==
    \A c \in RetryCalls :
        rpc[c] = "fetching" => (timeoutId[c] = "armed" \/ controller[c].aborted)

\* C7 as stated: on every return path the call's timer is no longer
\* pending.
C7_NoTimerLeftPending ==
    \A c \in RetryCalls : Settled(c) => timeoutId[c] # "armed"

\* C23: a sleep between two attempts lasts min(1000 * 2^attempt, 10000)
\* milliseconds plus a jitter below 1000, so at most 11000; and after the
\* last failed attempt the call does not sleep.
C23_BackoffSleepBounded ==
    \A c \in RetryCalls :
        /\ rpc[c] = "sleeping" =>
              LET power == 1000 * (2 ^ attempt[c])
                  base == IF power < 10000 THEN power ELSE 10000
              IN  /\ base <= sleepMs[c] /\ sleepMs[c] < base + 1000
                  /\ sleepMs[c] <= 11000
                  /\ attempt[c] < retries[c]
        /\ rpc[c] = "exhausted" =>
              /\ attempt[c] = retries[c]
              /\ backoffSleeps[c] = retries[c] - 1

\* The sleep after the fourth failure of five attempts: the ceiling of
\* 10000 plus the largest jitter.
C23_Witness ==
    \E c \in RetryCalls :
        rpc[c] = "sleeping" /\ attempt[c] = 4 /\ sleepMs[c] = 10999

\* C27: the controller is shared by the attempts of a call. Once the
\* timer has fired the signal stays aborted, and from then on no step of
\* the call gets a response, returns a payload or leaves by the CORS
\* return: a call that had not ended when the timer fired ends after its
\* last attempt.
C27_FiredTimerEndsInExhaustion ==
    [][\A c \in RetryCalls :
          timeoutId[c] = "fired" =>
              /\ controller[c].aborted /\ controller'[c].aborted
              /\ timeoutId'[c] = "fired"
              /\ rpc'[c] # rpc[c] =>
                    /\ rpc'[c] \in {"fetching", "sleeping", "exhausted"}
                    /\ rpc'[c] = "exhausted" => attempt'[c] = retries[c]
              /\ retryResult'[c] # retryResult[c] =>
                    retryResult'[c].value # "payload"]_vars

\* The timer fired during the first of three attempts; the two later
\* attempts were made with the aborted signal, and the call ended
\* exhausted.
C27_Witness ==
    \E c \in RetryCalls :
        /\ timeoutId[c] = "fired"
        /\ retries[c] = 3 /\ transportCalls[c] = 3
        /\ rpc[c] = "exhausted"

(***************************************************************************)
(* Claims on fetchWithCache                                                *)
(***************************************************************************)
KeyOf(c) == ccall[c].key
DurationOf(c) == ccall[c].duration
SameKey(a, b) == Began(a) /\ Began(b) /\ KeyOf(a) = KeyOf(b)
Distance(a, b) == IF ccall[a].now < ccall[b].now
                  THEN ccall[b].now - ccall[a].now
                  ELSE ccall[a].now - ccall[b].now
\* No call on the key of c began while another call on it was waiting for
\* its fetcher.
KeyNeverOverlapped(c) ==
    \A d \in CacheCalls : SameKey(c, d) => ~ccall[d].overlapped

C2_ServedOnlyIfFresh ==
    \A c \in CacheCalls :
        (Began(c) /\ ccall[c].fromCache)
            => ccall[c].now - ccall[c].servedTimestamp < DurationOf(c)

\* A call served an entry one millisecond short of its duration, and
\* another call on the same key that found the entry aged exactly the
\* duration and fetched.
C2_Witness ==
    \E b, d \in CacheCalls :
        /\ SameKey(b, d)
        /\ ccall[b].fromCache
        /\ ccall[b].now - ccall[b].servedTimestamp = DurationOf(b) - 1
        /\ ccall[d].fetcherCalled
        /\ ccall[d].now - ccall[b].servedTimestamp = DurationOf(d)

\* C8 as stated: getTPSHistory calls that differ in chain id or day window
\* never share a cache key, and a call served from the cache gets data
\* that was requested for its own arguments.
C8_KeysSeparateArguments ==
    /\ \A a, b \in CacheCalls :
          (Began(a) /\ Began(b) /\ ccall[a].call # ccall[b].call)
              => KeyOf(a) # KeyOf(b)
    /\ \A c \in CacheCalls :
          (Began(c) /\ ccall[c].fromCache)
              => ccall[c].data.request = RequestOf(ccall[c].call)

\* The step in which the fetcher of call c completes.
Completes(c) == Pending(c) /\ ccall'[c].pc = "done"

\* C21: last write wins. Every completion of a fetcher puts its own data
\* under the call's key, whatever the entry held and whichever call began
\* first, and nothing else changes an entry; so after overlapping calls the
\* entry holds the data of the fetcher that completed last.
C21_LastCompletedWriteWins ==
    [][/\ \A c \in CacheCalls :
            Completes(c) =>
                /\ KeyOf(c) \in DOMAIN cache'
                /\ cache'[KeyOf(c)].data = ccall'[c].data
                /\ cache'[KeyOf(c)].data.producer = c
       /\ \A k \in DOMAIN cache' :
            (k \notin DOMAIN cache \/ cache'[k] # cache[k])
                => \E c \in CacheCalls : Completes(c) /\ KeyOf(c) = k
       /\ DOMAIN cache \subseteq DOMAIN cache']_vars

\* Two calls on one key overlapped; the one that began second completed
\* first, and the entry holds the data of the one that began first.
C21_Witness ==
    /\ SameKey(1, 2)
    /\ ccall[1].overlapped /\ ccall[2].overlapped
    /\ ccall[1].pc = "done" /\ ccall[2].pc = "done"
    /\ ccall[1].fetcherCalled /\ ccall[2].fetcherCalled
    /\ cache[KeyOf(1)].data.producer = 1

\* C22 as stated: the entry a completed fetch stores carries the time that
\* is current when it is stored.
C22_TimestampIsCompletionTime ==
    [][\A c \in CacheCalls :
          Completes(c) => cache'[KeyOf(c)].timestamp = clock]_vars

\* The entry under key k is fresh for a call that passes `duration` now.
FreshNow(k, duration) ==
    k \in DOMAIN cache /\ clock - cache[k].timestamp < duration

\* The step in which call c begins.
Begins(c) == ccall[c].pc = "idle" /\ ccall'[c].pc # "idle"

\* C24: a call that finds a fresh entry for its key completes in the same
\* step without calling its fetcher (which alone issues HTTP requests) and
\* returns the stored data; the fetcher is called only when the key has no
\* entry or an expired one.
C24_FreshEntryServedWithoutRequest ==
    [][\A c \in CacheCalls :
          Begins(c) =>
              IF FreshNow(ccall'[c].key, ccall'[c].duration)
              THEN /\ ccall'[c].pc = "done"
                   /\ ~ccall'[c].fetcherCalled
                   /\ ccall'[c].data = cache[ccall'[c].key].data
                   /\ cache' = cache
              ELSE ccall'[c].fetcherCalled /\ ccall'[c].pc = "awaiting"]_vars

\* A call was served the data another call's fetcher had produced.
C24_Witness ==
    \E c, d \in CacheCalls :
        /\ c # d /\ SameKey(c, d)
        /\ ccall[c].pc = "done" /\ ccall[c].fromCache /\ ~ccall[c].fetcherCalled
        /\ ccall[c].data.producer = d
        /\ ccall[d].fetcherCalled

\* C26: no coalescing. A call that begins while another call on its key
\* is waiting for its fetcher, and finds no fresh entry, calls its own
\* fetcher; and a call that called its fetcher returns what that fetcher
\* produced, not what another call's did.
C26_OverlappingCallsEachFetch ==
    [][\A c \in CacheCalls :
          /\ (/\ Begins(c)
              /\ ~FreshNow(ccall'[c].key, ccall'[c].duration)
              /\ \E d \in CacheCalls :
                    d # c /\ Pending(d) /\ KeyOf(d) = ccall'[c].key)
                => (ccall'[c].fetcherCalled /\ ccall'[c].pc = "awaiting")
          /\ Completes(c) => ccall'[c].data.producer = c]_vars

\* Two calls on one key overlapped; each called its fetcher and each
\* returned the data of its own.
C26_Witness ==
    \E a, b \in CacheCalls :
        /\ a # b /\ SameKey(a, b)
        /\ ccall[a].overlapped /\ ccall[b].overlapped
        /\ ccall[a].pc = "done" /\ ccall[b].pc = "done"
        /\ ccall[a].data.producer = a /\ ccall[b].data.producer = b
        /\ ccall[a].now = ccall[b].now

\* Call c has ended with the fallback of its own fetcher.
EndedWithFallback(c) ==
    ccall[c].pc = "done" /\ ccall[c].fetcherCalled /\ ccall[c].data.fallback

\* C25 as stated: after a call has ended with its fallback, every later
\* call on the key within the ttl (counted from the start of the call
\* that failed) returns the fallback and makes no request.
C25_FallbackServedToEveryLaterCall ==
    [][\A a, b \in CacheCalls :
          (/\ Begins(b) /\ EndedWithFallback(a) /\ ccall'[b].key = KeyOf(a)
           /\ clock - ccall[a].now < DurationOf(a))
          => (~ccall'[b].fetcherCalled /\ ccall'[b].data.fallback)]_vars

\* C25 for the entry: a fallback is stored like a payload, under the key
\* and with the time the call read when it began; and a call that begins
\* while a fallback is the entry of its key and is fresh ends at once with
\* that fallback and makes no request.
C25_StoredFallbackServedWhileFresh ==
    [][\A c \in CacheCalls :
          /\ (Completes(c) /\ ccall'[c].data.fallback) =>
                /\ KeyOf(c) \in DOMAIN cache'
                /\ cache'[KeyOf(c)] = [data |-> ccall'[c].data,
                                       timestamp |-> ccall[c].now]
          /\ (/\ Begins(c)
              /\ FreshNow(ccall'[c].key, ccall'[c].duration)
              /\ cache[ccall'[c].key].data.fallback) =>
                /\ ccall'[c].pc = "done"
                /\ ~ccall'[c].fetcherCalled
                /\ ccall'[c].data = cache[ccall'[c].key].data]_vars

\* A call ended with its fallback, and a later call on the key was served
\* that fallback from the cache.
C25_Witness ==
    \E a, b \in CacheCalls :
        /\ a # b /\ SameKey(a, b)
        /\ EndedWithFallback(a)
        /\ ccall[b].pc = "done" /\ ccall[b].fromCache
        /\ ccall[b].data = ccall[a].data
        /\ ccall[b].now > ccall[a].now

(***************************************************************************)
(* Claims on the accessors                                                 *)
(***************************************************************************)
SettledCall(fn) == apc = "settled" /\ acall.fn = fn

\* C5: every accessor is total: whatever its fetchWithRetry call gave (a
\* parsed body of any content, or an exception), the accessor resolves,
\* never rejects, and the value it resolves with has the shape its
\* signature declares.
C5_AccessorsTotalWithDeclaredShape ==
    apc = "settled" =>
        /\ aresult.kind = "resolve"
        /\ HasDeclaredShape(acall.fn, aresult.value)

\* C9: getTPSHistory resolves with the empty list, and does not raise, for
\* every envelope whose success flag is false (or absent) or whose data
\* field is not an array.
C9_RefusedEnvelopeGivesEmptyList ==
    ( /\ SettledCall("getTPSHistory")
      /\ fetched.kind = "return"
      /\ \/ ~Truthy(Get(fetched.value, "success"))
         \/ ~IsArray(Get(fetched.value, "data")) )
    => aresult = Resolve(Arr(<< >>))

\* An envelope that says success: false and carries a usable data array
\* was answered with the empty list.
C9_Witness ==
    /\ SettledCall("getTPSHistory")
    /\ fetched.kind = "return"
    /\ IsObject(fetched.value)
    /\ Get(fetched.value, "success") = Bool(FALSE)
    /\ IsArray(Get(fetched.value, "data"))
    /\ \E i \in 1..Len(Get(fetched.value, "data").items) :
           TPSItemKept(Get(fetched.value, "data").items[i])
    /\ aresult = Resolve(Arr(<< >>))

\* The raw validators of the i-th chain of the body, and the validators of
\* the i-th chain of the result.
RawValidatorsOf(i) == Get(fetched.value.items[i], "validators").items
MappedValidatorsOf(i) == Get(aresult.value.items[i], "validators").items

\* The body is a list of chains that getChains maps without raising.
ChainsMapped ==
    /\ SettledCall("getChains")
    /\ fetched.kind = "return"
    /\ IsArray(fetched.value)
    /\ \A i \in 1..Len(fetched.value.items) : ~ChainThrows(fetched.value.items[i])

\* C10: getChains maps every raw validator to a Validator with address =
\* nodeId, weight = Number(amountStaked), uptime = uptimePerformance, and
\* active = true exactly when validationStatus is the string "active"; any
\* other, unknown or missing status gives active = false.
C10_ValidatorMapping ==
    ChainsMapped =>
        /\ aresult.kind = "resolve"
        /\ IsArray(aresult.value)
        /\ Len(aresult.value.items) = Len(fetched.value.items)
        /\ \A i \in 1..Len(fetched.value.items) :
            /\ IsArray(Get(aresult.value.items[i], "validators"))
            /\ Len(MappedValidatorsOf(i)) = Len(RawValidatorsOf(i))
            /\ \A j \in 1..Len(RawValidatorsOf(i)) :
                LET raw == RawValidatorsOf(i)[j]
                    mapped == MappedValidatorsOf(i)[j]
                IN  /\ Get(mapped, "address") = Get(raw, "nodeId")
                    /\ Get(mapped, "weight") = ToNumber(Get(raw, "amountStaked"))
                    /\ Get(mapped, "uptime") = Get(raw, "uptimePerformance")
                    /\ Get(mapped, "active") =
                         Bool(Get(raw, "validationStatus") = Str(S_active))

\* A chain was mapped whose validator has a status other than "active"
\* (here "Active") and a stake given as the text "500": the validator came
\* out inactive with weight 500.
C10_Witness ==
    /\ ChainsMapped
    /\ \E i \in 1..Len(fetched.value.items) :
        \E j \in 1..Len(RawValidatorsOf(i)) :
            /\ Get(RawValidatorsOf(i)[j], "validationStatus") = Str(S_Active)
            /\ Get(RawValidatorsOf(i)[j], "amountStaked") = Str(S_500)
            /\ Get(MappedValidatorsOf(i)[j], "active") = Bool(FALSE)
            /\ Get(MappedValidatorsOf(i)[j], "weight") = Num(500)

\* A number that is neither NaN nor negative.
IsNonNegativeNumber(v) == v.t = "number" /\ v.n >= 0

S_NA == <<"N","/","A">>

\* C11: for every validator getChains returns, weight and uptime are never
\* negative and never NaN: each is a number >= 0, or the text 'N/A' that a
\* malformed input is to be coerced to.
C11_WeightAndUptimeNeverNegativeOrNaN ==
    ChainsMapped =>
        \A i \in 1..Len(aresult.value.items) :
            \A j \in 1..Len(MappedValidatorsOf(i)) :
                LET mapped == MappedValidatorsOf(i)[j]
                IN  /\ \/ IsNonNegativeNumber(Get(mapped, "weight"))
                       \/ Get(mapped, "weight") = Str(S_NA)
                    /\ \/ IsNonNegativeNumber(Get(mapped, "uptime"))
                       \/ Get(mapped, "uptime") = Str(S_NA)

\* The series an accessor call resolved with, and the data array of the
\* envelope it was given.
SeriesCall(fn) ==
    /\ SettledCall(fn)
    /\ fetched.kind = "return"
    /\ IsObject(fetched.value)
    /\ IsArray(Get(fetched.value, "data"))

Ascending(items, key) ==
    \A i \in 1..Len(items) : \A j \in 1..Len(items) :
        i < j => items[i].f[key].n <= items[j].f[key].n

\* C12: every series getTVLHistory and getTPSHistory return is ascending
\* in timestamp (`date` for TVL, `timestamp` for TPS), for every order and
\* content of the backend's data array. Samples of equal timestamp are all
\* kept, next to each other.
C12_SeriesAscending ==
    /\ SettledCall("getTVLHistory") =>
          /\ aresult.kind = "resolve" /\ IsArray(aresult.value)
          /\ \A i \in 1..Len(aresult.value.items) :
                Get(aresult.value.items[i], "date").t = "number"
          /\ Ascending(aresult.value.items, "date")
    /\ SettledCall("getTPSHistory") =>
          /\ aresult.kind = "resolve" /\ IsArray(aresult.value)
          /\ \A i \in 1..Len(aresult.value.items) :
                Get(aresult.value.items[i], "timestamp").t = "number"
          /\ Ascending(aresult.value.items, "timestamp")

\* The backend sent two usable TPS samples, the later one first, and the
\* accessor returned both with the earlier one first.
C12_Witness ==
    /\ SeriesCall("getTPSHistory")
    /\ Truthy(Get(fetched.value, "success"))
    /\ Len(Get(fetched.value, "data").items) = 2
    /\ TPSItemKept(Get(fetched.value, "data").items[1])
    /\ TPSItemKept(Get(fetched.value, "data").items[2])
    /\ Get(Get(fetched.value, "data").items[1], "timestamp") = Num(2)
    /\ Get(Get(fetched.value, "data").items[2], "timestamp") = Num(1)
    /\ Len(aresult.value.items) = 2
    /\ Get(aresult.value.items[1], "timestamp") = Num(1)
    /\ Get(aresult.value.items[2], "timestamp") = Num(2)

\* C28: getChains normalises all or nothing. When the body is not an
\* array, or one chain object of it has no validators array, the accessor
\* resolves with the empty list, whatever well-formed chains the body holds.
C28_GetChainsAllOrNothing ==
    ( /\ SettledCall("getChains")
      /\ fetched.kind = "return"
      /\ \/ ~IsArray(fetched.value)
         \/ \E i \in 1..Len(fetched.value.items) :
               /\ IsObject(fetched.value.items[i])
               /\ ~IsArray(Get(fetched.value.items[i], "validators")) )
    => aresult = Resolve(Arr(<< >>))

\* A body of two chains, the first well formed and the second without
\* validators, was answered with the empty list.
C28_Witness ==
    /\ SettledCall("getChains")
    /\ fetched.kind = "return"
    /\ IsArray(fetched.value)
    /\ Len(fetched.value.items) = 2
    /\ fetched.value.items[1] = WellFormedChain
    /\ ~ChainThrows(fetched.value.items[1])
    /\ IsObject(fetched.value.items[2])
    /\ Get(fetched.value.items[2], "validators") = Undefined
    /\ aresult = Resolve(Arr(<< >>))

(***************************************************************************)
(* Claims on the transforms                                                *)
(***************************************************************************)
Returned(fn) == tpc \in {"returned", "reapplied", "recomputed"} /\ tcall.fn = fn

\* The calendar days of a series, in the zone of the call.
DaysOf(series) == {DateKey(series[i], tcall.offset) : i \in 1..Len(series)}

\* C13: deduplicateByDate returns exactly one sample per calendar day of
\* its input, that sample is a sample of the input with the greatest
\* timestamp of its day, and the output ascends by timestamp.
C13_OneLatestSamplePerDay ==
    Returned("deduplicateByDate") =>
        /\ DaysOf(tout) = DaysOf(tcall.data)
        /\ \A i \in 1..Len(tout) : \A j \in 1..Len(tout) :
              i < j => /\ DateKey(tout[i], tcall.offset) # DateKey(tout[j], tcall.offset)
                       /\ Get(tout[i], "date").n < Get(tout[j], "date").n
        /\ \A i \in 1..Len(tout) :
              /\ \E k \in 1..Len(tcall.data) : tcall.data[k] = tout[i]
              /\ \A k \in 1..Len(tcall.data) :
                    DateKey(tcall.data[k], tcall.offset) = DateKey(tout[i], tcall.offset)
                        => Get(tcall.data[k], "date").n <= Get(tout[i], "date").n

\* Three samples, the day's latest in the middle and the next day's sample
\* first: the output is the latest of the first day, then the other day's.
C13_Witness ==
    /\ Returned("deduplicateByDate")
    /\ tcall.offset = 0
    /\ Len(tcall.data) = 3
    /\ Get(tcall.data[1], "date") = Num(90000)
    /\ Get(tcall.data[2], "date") = Num(86399)
    /\ Get(tcall.data[3], "date") = Num(1)
    /\ tout = <<tcall.data[2], tcall.data[1]>>

\* C14: deduplicateByDate applied to its own output returns that output.
C14_DeduplicationIdempotent ==
    tpc = "reapplied" => tagain = tout

\* A series with two samples of one day and one of another was
\* deduplicated to two samples, and deduplicating those gave them back.
C14_Witness ==
    /\ tpc = "reapplied"
    /\ Len(tcall.data) = 3
    /\ Len(tout) = 2
    /\ tagain = tout

RECURSIVE SumOfValues(_)
SumOfValues(slices) ==
    IF slices = << >> THEN Num(0)
    ELSE Plus(SumOfValues(SubSeq(slices, 1, Len(slices) - 1)),
              slices[Len(slices)].value)

\* The stake the claim calls total active stake: the sum, over validators
\* whose status is "active", of the stakes that are numbers.
TotalActiveStake(validators) == TotalStakeOf(SelectSeq(validators, HasActiveStatus))

\* C15 as stated: the percentages calculateStakeDistribution computes sum
\* to 100 (10000 hundredths) when total active stake is greater than 0, and
\* the result is the empty list when total active stake is 0, active
\* validators of zero or non-numeric stake included.
C15_PercentagesSumTo100OrEmpty ==
    Returned("calculateStakeDistribution") =>
        IF TotalActiveStake(tcall.validators) > 0
        THEN SumOfValues(tout) = Num(10000)
        ELSE tout = << >>

\* C16 as stated: two computations over the same validator list give every
\* rank the same colour, the one of hue (index * 137.508) mod 360.
C16_ColoursDeterministic ==
    /\ (tpc = "recomputed" /\ tcall.fn = "calculateStakeDistribution") =>
          /\ Len(tagain) = Len(tout)
          /\ \A r \in 1..Len(tout) :
                /\ tagain[r].fill = tout[r].fill
                /\ tout[r].fill.hue = GetValidatorColor(r - 1, FALSE).hue
    /\ (tpc = "recomputed" /\ tcall.fn = "getValidatorColor") =>
          /\ tagain = tout
          /\ tout.hue = (tcall.index * 137508) % 360000

\* The validators the claims call active: status exactly "active" and a
\* stake whose text starts with a number greater than 0.
ActiveCount(validators) ==
    Cardinality({i \in 1..Len(validators.items) :
        /\ Get(validators.items[i], "validationStatus") = Str(S_active)
        /\ ParseFloat(Get(validators.items[i], "amountStaked")).t = "number"
        /\ ParseFloat(Get(validators.items[i], "amountStaked")).n > 0})

\* C17: calculateScore counts only validators of status exactly "active"
\* and positive stake; counts 0..9 score 0, 20, 20, 20, 20, 20, 40, 40, 40,
\* 40, and exactly 10 scores 85.
C17_ScoreStepsUpToTen ==
    (Returned("calculateScore") /\ IsArray(tcall.validators)) =>
        LET n == ActiveCount(tcall.validators)
        IN  /\ n = 0 => tout = Num(0)
            /\ n \in 1..5 => tout = Num(20)
            /\ n \in 6..9 => tout = Num(40)
            /\ n = 10 => tout = Num(85)

C17_Witness ==
    /\ Returned("calculateScore") /\ IsArray(tcall.validators)
    /\ ActiveCount(tcall.validators) = 6
    /\ Len(tcall.validators.items) = 7
    /\ tout = Num(40)

\* C18: above 10 active validators the score is
\* round(85 + min((n - 10) / 90 * 15, 15)), and every score is an integer
\* from 0 to 100.
C18_ScoreAboveTenAndRange ==
    Returned("calculateScore") =>
        /\ tout.t = "number" /\ tout.n \in 0..100
        /\ IsArray(tcall.validators) =>
              LET n == ActiveCount(tcall.validators)
                  bonus6 == IF n - 10 < 90 THEN n - 10 ELSE 90
                  twelfths == 2 * (85 * 6 + bonus6)
              IN  n > 10 =>
                    \* the integer nearest to twelfths / 12, halves going up
                    /\ 12 * tout.n <= twelfths + 6
                    /\ twelfths + 6 < 12 * (tout.n + 1)

C18_Witness ==
    /\ Returned("calculateScore") /\ IsArray(tcall.validators)
    /\ ActiveCount(tcall.validators) = 13
    /\ tout = Num(86)

\* The spellings of "ok" and of "healthy" in either case of each letter.
OkSpellings == {<<a, b>> : a \in {"o", "O"}, b \in {"k", "K"}}
HealthySpellings ==
    {<<a, b, c, d, e, f, g>> :
        a \in {"h", "H"}, b \in {"e", "E"}, c \in {"a", "A"}, d \in {"l", "L"},
        e \in {"t", "T"}, f \in {"h", "H"}, g \in {"y", "Y"}}

\* C19: isHealthy is true exactly when the status equals "ok" or "healthy"
\* whatever the case of its letters, whatever the timestamp; it is false
\* for every other status, "unknown" included.
C19_HealthyIffOkOrHealthy ==
    (Returned("isHealthy") /\ tcall.health # Null) =>
        LET status == Get(tcall.health, "status").s
        IN  /\ tout = Bool(status \in OkSpellings \cup HealthySpellings)
            /\ status = S_unknown => tout = Bool(FALSE)

C19_Witness ==
    /\ Returned("isHealthy")
    /\ tcall.health # Null
    /\ Get(tcall.health, "status") = Str(S_HEALTHY)
    /\ Get(tcall.health, "timestamp") = Num(0)
    /\ tout = Bool(TRUE)

\* The first k validators of the list the score was computed for.
FirstValidators(k) == Arr(SubSeq(tcall.validators.items, 1, k))

\* C30: calculateScore does not decrease when active validators are added:
\* the score of a list is at least the score of each of its beginnings,
\* which hold no more active validators; so across 9, 10 and 11 active
\* validators (40, 85, 85).
C30_ScoreNonDecreasing ==
    (Returned("calculateScore") /\ IsArray(tcall.validators)) =>
        \A k \in 0..Len(tcall.validators.items) :
            CalculateScore(FirstValidators(k)).n <= tout.n

\* Eleven active validators scored 85, the first ten of them 85 and the
\* first nine 40.
C30_Witness ==
    /\ Returned("calculateScore") /\ IsArray(tcall.validators)
    /\ Len(tcall.validators.items) = 11
    /\ ActiveCount(tcall.validators) = 11
    /\ tout = Num(85)
    /\ CalculateScore(FirstValidators(10)) = Num(85)
    /\ CalculateScore(FirstValidators(9)) = Num(40)

(***************************************************************************)
(* Claims on the polling effects                                           *)
(***************************************************************************)
\* C20 as stated: once the cleanup of Dashboard or of TPSChart has run, no
\* later timer tick, and no fetch started by an earlier tick that settles
\* later, calls the view's state setters.
C20_NoSetterAfterTeardown ==
    [][\A v \in Views :
          (/\ cleanedUp[v]
           /\ \/ ticks'[v] # ticks[v]
              \/ pending'[v].tick # pending[v].tick)
          => setterCalls'[v] = setterCalls[v]]_vars

(***************************************************************************)
(* Claims on the store                                                     *)
(***************************************************************************)
\* C29: when the fetch of the network TPS fails after the chains were
\* fetched, fetchBlockchainData ends with blockchainData empty, tpsData
\* empty and isLoading false, and rejects with the error of the TPS fetch.
C29_TpsFailureResetsStore ==
    /\ spc = "tpsThrew" => store.tpsData = << >>
    /\ (spc = "rejected" /\ sresult.error = "tps") =>
          /\ store.blockchainData = << >>
          /\ store.tpsData = << >>
          /\ store.isLoading = Bool(FALSE)
          /\ sresult.kind = "reject"

\* The second call loaded two chains after the first had loaded chains and
\* samples; its TPS fetch failed, and the store holds neither.
C29_Witness ==
    /\ scalls = 2
    /\ spc = "rejected" /\ sresult.error = "tps"
    /\ Len(transformedData) = 2
    /\ store.blockchainData = << >>
    /\ store.tpsData = << >>

=============================================================================
